---------------------------- MODULE Spec2Model ----------------------------
(***************************************************************************)
(* A model of godb-orm: the App bridge (session state guarded by a         *)
(* sync.RWMutex), the database introspectors and their engine handles,     *)
(* the Generator (Generate, GenerateString, GenerateToFile, GenerateAll)   *)
(* and the TypeMapper.                                                     *)
(*                                                                         *)
(* Strings are TLA+ strings; Len, \o and SubSeq act on them character by   *)
(* character, so the string functions of the Go code are computed as the   *)
(* code computes them.                                                      *)
(***************************************************************************)
EXTENDS Integers, Sequences, FiniteSets, TLC

(***************************************************************************)
(* Bounds of the model.                                                    *)
(***************************************************************************)
\* display widths 1..MaxWidth are tried in raw types such as int(11)
MaxWidth == 3
\* number of App.ConnectDB calls in one behaviour
MaxConnects == 2
\* number of Connect calls on one directly used introspector
MaxDirectConnects == 2
\* the longest name the acronym correction is run on letter by letter
MaxNameLen == 4
\* the longest word that is singularized letter by letter
MaxWordLen == 3
\* the most columns of a table whose imports are detected
MaxFields == 3
\* the most columns of a table whose struct is rendered
MaxColumns == 2

(***************************************************************************)
(* Go's strings package, on ASCII.                                         *)
(***************************************************************************)
CharAt(s, i) == SubSeq(s, i, i)

UpperLetters == "ABCDEFGHIJKLMNOPQRSTUVWXYZ"

LowerLetters == "abcdefghijklmnopqrstuvwxyz"

\* upper-case letter -> lower-case letter
LowerOf ==
  [c \in {CharAt(UpperLetters, i) : i \in 1..26} |->
     CharAt(LowerLetters, CHOOSE i \in 1..26 : CharAt(UpperLetters, i) = c)]

\* lower-case letter -> upper-case letter
UpperOf ==
  [c \in {CharAt(LowerLetters, i) : i \in 1..26} |->
     CharAt(UpperLetters, CHOOSE i \in 1..26 : CharAt(LowerLetters, i) = c)]

\* unicode.ToLower of one character
LowerChar(c) == IF c \in DOMAIN LowerOf THEN LowerOf[c] ELSE c

\* unicode.ToUpper of one character
UpperChar(c) == IF c \in DOMAIN UpperOf THEN UpperOf[c] ELSE c

RECURSIVE ToLowerFrom(_, _)
ToLowerFrom(s, i) ==
  IF i > Len(s) THEN "" ELSE LowerChar(CharAt(s, i)) \o ToLowerFrom(s, i + 1)

\* strings.ToLower
ToLower(s) == ToLowerFrom(s, 1)

RECURSIVE ToUpperFrom(_, _)
ToUpperFrom(s, i) ==
  IF i > Len(s) THEN "" ELSE UpperChar(CharAt(s, i)) \o ToUpperFrom(s, i + 1)

\* strings.ToUpper
ToUpper(s) == ToUpperFrom(s, 1)

IsSpace(c) == c \in {" ", "\t", "\n", "\r"}

\* strings.TrimSpace
TrimSpace(s) ==
  LET keep == {i \in 1..Len(s) : ~IsSpace(CharAt(s, i))}
  IN  IF keep = {} THEN ""
      ELSE SubSeq(s, CHOOSE i \in keep : \A j \in keep : i <= j,
                     CHOOSE i \in keep : \A j \in keep : i >= j)

\* the 1-based positions at which sub occurs in s
Occurrences(s, sub) ==
  {i \in 1..(Len(s) - Len(sub) + 1) : SubSeq(s, i, i + Len(sub) - 1) = sub}

\* strings.Index, 1-based; 0 when sub does not occur (Go: -1)
Index(s, sub) ==
  IF Occurrences(s, sub) = {} THEN 0
  ELSE CHOOSE i \in Occurrences(s, sub) : \A j \in Occurrences(s, sub) : i <= j

\* strings.Contains
Contains(s, sub) == Len(sub) = 0 \/ Occurrences(s, sub) # {}

\* strings.HasPrefix
HasPrefix(s, p) == Len(s) >= Len(p) /\ SubSeq(s, 1, Len(p)) = p

(***************************************************************************)
(* TypeMapper (internal/generator/typemapper.go).                          *)
(***************************************************************************)
\* one row of typeMap: key, GoType, ImportPath, IsSlice
TypeRow(k, g, imp, sl) == [key |-> k, GoType |-> g, ImportPath |-> imp, IsSlice |-> sl]

\* the table initTypeMappings builds
typeMap ==
  { TypeRow("int", "int32", "", FALSE),
    TypeRow("integer", "int32", "", FALSE),
    TypeRow("smallint", "int16", "", FALSE),
    TypeRow("mediumint", "int32", "", FALSE),
    TypeRow("bigint", "int64", "", FALSE),
    TypeRow("tinyint", "int8", "", FALSE),
    TypeRow("serial", "int32", "", FALSE),
    TypeRow("bigserial", "int64", "", FALSE),
    TypeRow("smallserial", "int16", "", FALSE),
    TypeRow("int unsigned", "uint32", "", FALSE),
    TypeRow("integer unsigned", "uint32", "", FALSE),
    TypeRow("smallint unsigned", "uint16", "", FALSE),
    TypeRow("mediumint unsigned", "uint32", "", FALSE),
    TypeRow("bigint unsigned", "uint64", "", FALSE),
    TypeRow("tinyint unsigned", "uint8", "", FALSE),
    TypeRow("decimal", "float64", "", FALSE),
    TypeRow("numeric", "float64", "", FALSE),
    TypeRow("float", "float32", "", FALSE),
    TypeRow("double", "float64", "", FALSE),
    TypeRow("double precision", "float64", "", FALSE),
    TypeRow("real", "float32", "", FALSE),
    TypeRow("money", "float64", "", FALSE),
    TypeRow("varchar", "string", "", FALSE),
    TypeRow("char", "string", "", FALSE),
    TypeRow("character", "string", "", FALSE),
    TypeRow("character varying", "string", "", FALSE),
    TypeRow("text", "string", "", FALSE),
    TypeRow("longtext", "string", "", FALSE),
    TypeRow("mediumtext", "string", "", FALSE),
    TypeRow("tinytext", "string", "", FALSE),
    TypeRow("citext", "string", "", FALSE),
    TypeRow("timestamp", "time.Time", "time", FALSE),
    TypeRow("timestamptz", "time.Time", "time", FALSE),
    TypeRow("timestamp with time zone", "time.Time", "time", FALSE),
    TypeRow("timestamp without time zone", "time.Time", "time", FALSE),
    TypeRow("datetime", "time.Time", "time", FALSE),
    TypeRow("date", "time.Time", "time", FALSE),
    TypeRow("time", "string", "", FALSE),
    TypeRow("time with time zone", "string", "", FALSE),
    TypeRow("time without time zone", "string", "", FALSE),
    TypeRow("year", "int16", "", FALSE),
    TypeRow("interval", "string", "", FALSE),
    TypeRow("bool", "bool", "", FALSE),
    TypeRow("boolean", "bool", "", FALSE),
    TypeRow("tinyint(1)", "bool", "", FALSE),
    TypeRow("json", "datatypes.JSON", "gorm.io/datatypes", FALSE),
    TypeRow("jsonb", "datatypes.JSON", "gorm.io/datatypes", FALSE),
    TypeRow("uuid", "uuid.UUID", "github.com/google/uuid", FALSE),
    TypeRow("bytea", "[]byte", "", TRUE),
    TypeRow("blob", "[]byte", "", TRUE),
    TypeRow("tinyblob", "[]byte", "", TRUE),
    TypeRow("mediumblob", "[]byte", "", TRUE),
    TypeRow("longblob", "[]byte", "", TRUE),
    TypeRow("binary", "[]byte", "", TRUE),
    TypeRow("varbinary", "[]byte", "", TRUE),
    TypeRow("bit", "[]byte", "", TRUE),
    TypeRow("enum", "string", "", FALSE),
    TypeRow("set", "string", "", FALSE),
    TypeRow("inet", "string", "", FALSE),
    TypeRow("cidr", "string", "", FALSE),
    TypeRow("macaddr", "string", "", FALSE),
    TypeRow("macaddr8", "string", "", FALSE),
    TypeRow("xml", "string", "", FALSE),
    TypeRow("point", "string", "", FALSE),
    TypeRow("line", "string", "", FALSE),
    TypeRow("lseg", "string", "", FALSE),
    TypeRow("box", "string", "", FALSE),
    TypeRow("path", "string", "", FALSE),
    TypeRow("polygon", "string", "", FALSE),
    TypeRow("circle", "string", "", FALSE) }

\* typeMap as the Go map: key -> row
typeIndex == [k \in {r.key : r \in typeMap} |-> CHOOSE r \in typeMap : r.key = k]

\* mapping, ok := tm.typeMap[key]
HasMapping(key) == key \in DOMAIN typeIndex

Mapping(key) == typeIndex[key]

\* extractBaseType: the type up to its first "(", trimmed
extractBaseType(dbType) ==
  IF Index(dbType, "(") # 0
    THEN TrimSpace(SubSeq(dbType, 1, Index(dbType, "(") - 1))
    ELSE dbType

\* an applyNullable that points at the type of a nullable column, slices
\* excepted
applyNullablePointer(goType, isNullable, isSlice) ==
  IF isNullable /\ ~isSlice THEN "*" \o goType ELSE goType

\* applyNullable: the Go type, whatever the two flags are
applyNullable(goType, isNullable, isSlice) == goType

\* what GetGoType returns: Go type, import path, comment
GoTypeResult(g, imp, c) == [goType |-> g, importPath |-> imp, comment |-> c]

OfMapping(m, isNullable) ==
  GoTypeResult(applyNullable(m.GoType, isNullable, m.IsSlice), m.ImportPath, "")

\* a mapper that never consults the "<baseType> unsigned" key
UnsignedRuleSkipped(normalizedType, baseType) == FALSE

\* the unsigned rule of GetGoType applies: the marker is present and
\* "<baseType> unsigned" is a key of the table
UnsignedRule(normalizedType, baseType) ==
  Contains(normalizedType, "unsigned") /\ HasMapping(baseType \o " unsigned")

\* a mapper without the tinyint(1) rule
TinyintOneRuleSkipped(normalizedType) == FALSE

\* the tinyint(1) rule of GetGoType applies
TinyintOneRule(normalizedType) ==
  HasPrefix(normalizedType, "tinyint(1)") /\ ~Contains(normalizedType, "unsigned")

\* a fallback that reports the normalized type
UnknownTypeNormalized(dbType, normalizedType, isNullable) ==
  GoTypeResult(applyNullable("interface{}", isNullable, FALSE), "",
               "// unknown type: " \o normalizedType)

\* GetGoType lines 166-169: the fallback
UnknownType(dbType, normalizedType, isNullable) ==
  GoTypeResult(applyNullable("interface{}", isNullable, FALSE), "",
               "// unknown type: " \o dbType)

GetGoType(dbType, isNullable) ==
  LET normalizedType == ToLower(TrimSpace(dbType))
      baseType == extractBaseType(normalizedType)
  IN  IF UnsignedRule(normalizedType, baseType)
        THEN OfMapping(Mapping(baseType \o " unsigned"), isNullable)
      ELSE IF TinyintOneRule(normalizedType)
        THEN OfMapping(Mapping("tinyint(1)"), isNullable)
      ELSE IF HasMapping(normalizedType)
        THEN OfMapping(Mapping(normalizedType), isNullable)
      ELSE IF HasMapping(baseType)
        THEN OfMapping(Mapping(baseType), isNullable)
      ELSE UnknownType(dbType, normalizedType, isNullable)

\* a GetGoTypeSimple that points at the type of a nullable column
GetGoTypeSimplePointer(dbType, isNullable) ==
  IF isNullable THEN "*" \o GetGoType(dbType, isNullable).goType
  ELSE GetGoType(dbType, isNullable).goType

\* GetGoTypeSimple
GetGoTypeSimple(dbType, isNullable) == GetGoType(dbType, isNullable).goType

(***************************************************************************)
(* State.                                                                  *)
(***************************************************************************)
VARIABLES
  engine,        \* the database: namespace -> its base tables, in name order
  handles,       \* every *sql.DB opened so far: [state, est]
  insps,         \* every introspector object created so far
  fs,            \* the files written so far: path -> content
  connected,     \* App.connected
  introspector,  \* App.introspector: an index of insps, 0 for nil
  generator,     \* App.generator: the introspector it wraps, 0 for nil
  dbConfig,      \* App.dbConfig: the Driver of the stored config, "" for nil
  mu,            \* App.mu: [writer, readers]
  pc,            \* per caller of the App: its position in the bridge method
  call,          \* per caller of the App: the method, its argument, its result
  dlast,         \* direct use of one introspector/generator: the last call
  tIn,           \* a call of a pure function: its arguments
  tOut           \* a call of a pure function: its result

appVars == <<connected, introspector, generator, dbConfig, mu, pc, call>>

typeVars == <<tIn, tOut>>

vars == <<engine, handles, insps, fs, connected, introspector, generator,
          dbConfig, mu, pc, call, dlast, tIn, tOut>>

(***************************************************************************)
(* Errors and results.                                                     *)
(***************************************************************************)
\* a nil error
NoErr == "<nil>"

\* a method called through a nil *sql.DB panics
PanicNil == "panic: nil pointer dereference"

\* database/sql's answer on a closed DB
ErrDBClosed == "sql: database is closed"

\* the engine refused or failed the query
EngineErr == "engine error"

\* app.go: ErrNotConnected
ErrNotConnected == "database not connected"

\* fmt.Errorf("<msg>: %w", err); a panic is not an error value and unwinds
\* through the caller unchanged
Wrap(msg, err) == IF err = PanicNil THEN err ELSE msg \o ": " \o err

\* the result of an operation: its value, its error, the engine queries it
\* issued
Res(val, err, queries) == [val |-> val, err |-> err, queries |-> queries]

\* one catalog query sent to the engine
Q(op, ns, table) == [op |-> op, ns |-> ns, table |-> table]

(***************************************************************************)
(* The engine's catalog.                                                   *)
(***************************************************************************)
\* cfg.DBName of every connection
DBName == "appdb"

\* the base tables of namespace ns, ORDER BY table name
TablesIn(ns) == IF ns \in DOMAIN engine THEN engine[ns] ELSE <<>>

HasTable(ns, t) == \E i \in 1..Len(TablesIn(ns)) : TablesIn(ns)[i].name = t

TableEntry(ns, t) ==
  TablesIn(ns)[CHOOSE i \in 1..Len(TablesIn(ns)) : TablesIn(ns)[i].name = t]

\* what goes wrong with table t: "ok", or the step that fails
\*   "meta"   the column query fails
\*   "render" executing the template fails
\*   "format" go/format rejects the rendered text
\*   "write"  the file cannot be written
FaultOf(ns, t) == IF HasTable(ns, t) THEN TableEntry(ns, t).fault ELSE "ok"

\* the rows of information_schema.columns for table t, in ordinal order
ColumnsIn(ns, t) ==
  IF ~HasTable(ns, t) THEN <<>>
  ELSE << [Name |-> "id", RawType |-> "int unsigned", IsNullable |-> FALSE],
          [Name |-> "title", RawType |-> "varchar(255)", IsNullable |-> TRUE] >>

(***************************************************************************)
(* Introspectors (internal/database).                                      *)
(***************************************************************************)
Drivers == {"mysql", "postgres", "postgresql", "sqlite"}

\* NewIntrospector: the variant for cfg.Driver, "" when unsupported
KindOf(driver) ==
  CASE driver = "mysql" -> "mysql"
    [] driver \in {"postgres", "postgresql"} -> "postgres"
    [] OTHER -> ""

\* NewMySQLIntrospector / NewPostgresIntrospector: no handle yet, the
\* PostgreSQL variant starts at schema "public"
NewIntrospectorObj(driver) ==
  [kind |-> KindOf(driver), db |-> 0,
   currentSchema |-> IF KindOf(driver) = "postgres" THEN "public" ELSE ""]

\* the state of the object's b.db: "nil", "open" or "closed"
DBState(o) == IF o.db = 0 THEN "nil" ELSE handles[o.db].state

\* a PostgreSQL variant whose queries name the default schema whatever was
\* selected
NamespaceDefault(o) == IF o.kind = "mysql" THEN DBName ELSE "public"

\* the namespace the object's queries name: cfg.DBName or currentSchema
Namespace(o) == IF o.kind = "mysql" THEN DBName ELSE o.currentSchema

EngineName(o) == IF o.kind = "mysql" THEN "MySQL" ELSE "PostgreSQL"

\* b.db.Query / QueryRow on handle state st: what the sql package answers
\* before any query reaches the engine
QueryRefusal(st) ==
  CASE st = "nil" -> PanicNil
    [] st = "closed" -> ErrDBClosed
    [] OTHER -> NoErr

\* MySQLIntrospector.GetTables / PostgresIntrospector.GetTables
GetTables(o) ==
  IF QueryRefusal(DBState(o)) # NoErr
    THEN Res(<<>>, Wrap("failed to query tables", QueryRefusal(DBState(o))), <<>>)
  ELSE Res([i \in 1..Len(TablesIn(Namespace(o))) |-> TablesIn(Namespace(o))[i].name],
           NoErr, <<Q("tables", Namespace(o), "")>>)

\* PostgresIntrospector.getPrimaryKeyColumns: the regclass cast fails for a
\* table the namespace does not hold
getPrimaryKeyColumns(o, t) ==
  IF HasTable(Namespace(o), t)
    THEN Res({"id"}, NoErr, <<Q("primarykeys", Namespace(o), t)>>)
    ELSE Res({}, Wrap("failed to query primary keys", EngineErr),
             <<Q("primarykeys", Namespace(o), t)>>)

\* MySQLIntrospector.GetColumns / PostgresIntrospector.GetColumns
GetColumns(o, t) ==
  LET ns == Namespace(o)
      q == <<Q("columns", ns, t)>>
  IN  IF QueryRefusal(DBState(o)) # NoErr
        THEN Res(<<>>, Wrap("failed to query columns", QueryRefusal(DBState(o))), <<>>)
      ELSE IF FaultOf(ns, t) = "meta"
        THEN Res(<<>>, Wrap("failed to query columns", EngineErr), q)
      ELSE IF o.kind = "mysql"
        THEN Res(ColumnsIn(ns, t), NoErr, q)
      ELSE LET pk == getPrimaryKeyColumns(o, t)
           IN  IF pk.err # NoErr THEN Res(<<>>, pk.err, q \o pk.queries)
               ELSE Res(ColumnsIn(ns, t), NoErr, q \o pk.queries)

\* the nil *TableMetadata
NoMeta == [Schema |-> "", Name |-> "", Columns |-> <<>>]

\* GetTableMetadata once GetColumns has answered c: the table comment is
\* queried next (sql.ErrNoRows is not an error)
MetadataFrom(o, t, c) ==
  IF c.err # NoErr THEN Res(NoMeta, c.err, c.queries)
  ELSE Res([Schema |-> Namespace(o), Name |-> t, Columns |-> c.val], NoErr,
           c.queries \o <<Q("comment", Namespace(o), t)>>)

\* MySQLIntrospector.GetTableMetadata / PostgresIntrospector.GetTableMetadata
GetTableMetadata(o, t) == MetadataFrom(o, t, GetColumns(o, t))

\* the schemas of the database other than the system ones, ORDER BY name
SchemaList == <<"public", "sales">>

\* PostgresIntrospector.GetSchemas
GetSchemas(o) ==
  IF QueryRefusal(DBState(o)) # NoErr
    THEN Res(<<>>, Wrap("failed to query schemas", QueryRefusal(DBState(o))), <<>>)
    ELSE Res(SchemaList, NoErr, <<Q("schemas", "", "")>>)

(***************************************************************************)
(* Generator (internal/generator/generator.go).                            *)
(***************************************************************************)
\* the directory the callers write to
OutDir == "models"

IsDigit(c) == c \in {"0", "1", "2", "3", "4", "5", "6", "7", "8", "9"}

\* the bytes strcase.ToSnake writes for byte i of s, on identifiers of
\* letters, digits and "_": the byte in lower case, with a "_" where the kind
\* of character changes (an acronym is one word: "APIKey" gives "api_key")
SnakeBytes(s, i) ==
  LET v == CharAt(s, i)
      next == CharAt(s, i + 1)
      prev == CharAt(s, i - 1)
      vIsCap == LowerChar(v) # v
      vIsLow == UpperChar(v) # v
      vIsNum == IsDigit(v)
      nextIsCap == LowerChar(next) # next
      nextIsLow == UpperChar(next) # next
      nextIsNum == IsDigit(next)
      changes == \/ vIsCap /\ (nextIsLow \/ nextIsNum)
                 \/ vIsLow /\ (nextIsCap \/ nextIsNum)
                 \/ vIsNum /\ (nextIsCap \/ nextIsLow)
  IN  IF i < Len(s) /\ changes
        THEN (IF vIsCap /\ nextIsLow /\ i > 1 /\ LowerChar(prev) # prev
                THEN "_" ELSE "")
             \o LowerChar(v)
             \o (IF vIsLow \/ vIsNum \/ nextIsNum THEN "_" ELSE "")
        ELSE LowerChar(v)

RECURSIVE ToSnakeFrom(_, _)
ToSnakeFrom(s, i) ==
  IF i > Len(s) THEN "" ELSE SnakeBytes(s, i) \o ToSnakeFrom(s, i + 1)

ToSnake(s) == ToSnakeFrom(s, 1)

\* NamingConverter.ToFileName
ToFileName(tableName) == ToSnake(tableName) \o ".go"

\* filepath.Join(outputDir, fileName)
JoinPath(dir, file) == dir \o "/" \o file

\* the text the template renders for the table: package clause, struct with
\* one field per column, TableName accessor
RECURSIVE RenderFields(_, _)
RenderFields(cols, i) ==
  IF i > Len(cols) THEN ""
  ELSE "\t" \o cols[i].Name \o " " \o GetGoType(cols[i].RawType, cols[i].IsNullable).goType
       \o "\n" \o RenderFields(cols, i + 1)

RenderTemplate(meta) ==
  "package models\ntype " \o meta.Name \o " struct {\n" \o RenderFields(meta.Columns, 1)
  \o "}\nfunc TableName() string { return \"" \o meta.Name \o "\" }\n"

\* format.Source on text it accepts: the reformatted text
FormatSource(text) == "// gofmt\n" \o text

\* a Generate that returns nothing but the error when formatting fails
OnFormatFailureDropText(raw, q) ==
  Res("", Wrap("go/format failed (returning unformatted)", "syntax error"), q)

\* Generate, lines 126-131: format.Source failed
OnFormatFailure(raw, q) ==
  Res(raw, Wrap("go/format failed (returning unformatted)", "syntax error"), q)

\* Generate once the template has rendered raw: format.Source
FormatRendered(fault, raw, q) ==
  IF fault = "format" THEN OnFormatFailure(raw, q) ELSE Res(FormatSource(raw), NoErr, q)

\* Generate once GetTableMetadata has answered m
GenerateFrom(fault, m) ==
  IF m.err # NoErr
    THEN Res("", Wrap("failed to get table metadata", m.err), m.queries)
  ELSE IF fault = "render"
    THEN Res("", Wrap("failed to execute template", "template error"), m.queries)
  ELSE FormatRendered(fault, RenderTemplate(m.val), m.queries)

\* Generator.Generate
Generate(o, t) == GenerateFrom(FaultOf(Namespace(o), t), GetTableMetadata(o, t))

\* GenerateString once Generate has answered g
StringFrom(g) ==
  IF g.err # NoErr THEN Res("", g.err, g.queries) ELSE Res(g.val, NoErr, g.queries)

\* Generator.GenerateString
GenerateString(o, t) == StringFrom(Generate(o, t))

\* the result of an operation that also writes files
FRes(val, err, queries, files) ==
  [val |-> val, err |-> err, queries |-> queries, fs |-> files]

\* os.WriteFile(path, content)
WriteFile(files, path, content) ==
  [p \in DOMAIN files \cup {path} |-> IF p = path THEN content ELSE files[p]]

\* GenerateToFile once Generate has answered g: the file is written at
\* filePath unless Generate failed
ToFileFrom(fault, filePath, files, g) ==
  IF g.err # NoErr THEN FRes("", g.err, g.queries, files)
  ELSE IF fault = "write"
    THEN FRes("", Wrap("failed to write file", "permission denied"), g.queries, files)
  ELSE FRes(filePath, NoErr, g.queries, WriteFile(files, filePath, g.val))

\* Generator.GenerateToFile, starting from the files `files`
GenerateToFile(o, t, outputDir, files) ==
  ToFileFrom(FaultOf(Namespace(o), t), JoinPath(outputDir, ToFileName(t)), files,
             Generate(o, t))

RECURSIVE GenerateAllLoop(_, _, _, _, _, _, _)

\* a batch that skips a failing table and goes on
GenerateAllStepContinue(o, tables, i, outputDir, filePaths, q, r) ==
  GenerateAllLoop(o, tables, i + 1, outputDir,
                  IF r.err # NoErr THEN filePaths ELSE Append(filePaths, r.val),
                  q \o r.queries, r.fs)

\* one turn of the loop of GenerateAll: GenerateToFile answered r for tables[i]
GenerateAllStep(o, tables, i, outputDir, filePaths, q, r) ==
  IF r.err # NoErr
    THEN FRes(filePaths, Wrap("failed to generate " \o tables[i], r.err),
              q \o r.queries, r.fs)
    ELSE GenerateAllLoop(o, tables, i + 1, outputDir, Append(filePaths, r.val),
                         q \o r.queries, r.fs)

\* the loop of GenerateAll from table i on: filePaths so far, queries so far
GenerateAllLoop(o, tables, i, outputDir, filePaths, q, files) ==
  IF i > Len(tables) THEN FRes(filePaths, NoErr, q, files)
  ELSE GenerateAllStep(o, tables, i, outputDir, filePaths, q,
                       GenerateToFile(o, tables[i], outputDir, files))

\* GenerateAll once GetTables has answered tl
GenerateAllFrom(o, outputDir, files, tl) ==
  IF tl.err # NoErr
    THEN FRes(<<>>, Wrap("failed to get tables", tl.err), tl.queries, files)
    ELSE GenerateAllLoop(o, tl.val, 1, outputDir, <<>>, tl.queries, files)

\* Generator.GenerateAll
GenerateAll(o, outputDir, files) == GenerateAllFrom(o, outputDir, files, GetTables(o))

(***************************************************************************)
(* Connect and Close of an introspector.                                   *)
(***************************************************************************)
\* how a Connect attempt ends: sql.Open fails, Ping fails, or both succeed
ConnectOutcomes == {"open_fail", "ping_fail", "ok"}

\* a handle sql.Open returned; est: its Ping succeeded
NewHandle(est) == [state |-> "open", est |-> est]

\* MySQLIntrospector.Connect / PostgresIntrospector.Connect on object o:
\* the object after the call, the handles after the call, the error
Connect(o, outcome) ==
  CASE outcome = "open_fail" ->
         [o |-> o, handles |-> handles,
          err |-> Wrap("failed to open " \o EngineName(o) \o " connection", EngineErr)]
    [] outcome = "ping_fail" ->
         [o |-> o, handles |-> Append(handles, NewHandle(FALSE)),
          err |-> Wrap("failed to ping " \o EngineName(o), EngineErr)]
    [] OTHER ->
         [o |-> [o EXCEPT !.db = Len(handles) + 1],
          handles |-> Append(handles, NewHandle(TRUE)),
          err |-> NoErr]

\* BaseIntrospector.Close on object o; closeErr: closing the engine
\* connections reports an error. sql.DB.Close marks the DB closed either way
\* and answers nil on a DB that is closed already; b.db is left as it is
Close(o, closeErr) ==
  IF o.db = 0 \/ handles[o.db].state = "closed"
    THEN [handles |-> handles, err |-> NoErr]
    ELSE [handles |-> [handles EXCEPT ![o.db].state = "closed"],
          err |-> IF closeErr THEN "close: " \o EngineErr ELSE NoErr]

(***************************************************************************)
(* The catalogs the model is run on.                                       *)
(***************************************************************************)
\* table names, in the order ORDER BY yields
TableNames == <<"items", "orders", "users">>

Faults == {"ok", "meta", "format", "write"}

\* the tables named by f (index -> fault or "absent"), in name order
RECURSIVE CatalogFrom(_, _)
CatalogFrom(f, i) ==
  IF i > Len(TableNames) THEN <<>>
  ELSE (IF f[i] = "absent" THEN <<>> ELSE <<[name |-> TableNames[i], fault |-> f[i]]>>)
       \o CatalogFrom(f, i + 1)

\* every catalog over the table names and faults, and one whose second table
\* fails in the template
Catalogs ==
  {CatalogFrom(f, 1) : f \in [1..Len(TableNames) -> Faults \cup {"absent"}]}
  \cup {CatalogFrom(<<"ok", "render", "ok">>, 1)}

Namespaces == {DBName, "public", "sales"}

\* a database whose default namespaces hold catalog c and whose schema
\* "sales" holds one table
EngineWith(c) ==
  [ns \in Namespaces |->
     IF ns = "sales" THEN <<[name |-> "orders", fault |-> "ok"]>> ELSE c]

\* table arguments callers pass: the catalog's names and one it never holds
TableArgs == {TableNames[i] : i \in 1..Len(TableNames)} \cup {"ghosts"}

NoFiles == [p \in {} |-> ""]

(***************************************************************************)
(* Direct use of one introspector and the generator built on it, as the    *)
(* command line does: insps[1] is the object.                              *)
(***************************************************************************)
DLast(op, arg, r) ==
  [op |-> op, arg |-> arg, val |-> r.val, err |-> r.err, queries |-> r.queries,
   state |-> DBState(insps[1])]

\* the state of the other parts while one introspector is used directly
AppIdle ==
  /\ connected = FALSE /\ introspector = 0 /\ generator = 0 /\ dbConfig = ""
  /\ mu = [writer |-> "", readers |-> {}]
  /\ pc = <<>> /\ call = <<>>

\* the type mapper before any call
NoTypeCall ==
  [called |-> FALSE, goType |-> "", importPath |-> "", comment |-> "", simple |-> ""]

NoTypeArgs ==
  [dbType |-> "", isNullable |-> FALSE, base |-> "", width |-> 0, unsigned |-> FALSE]

TypesIdle == tIn = NoTypeArgs /\ tOut = NoTypeCall

DirectConnect(outcome) ==
  /\ Len(handles) < MaxDirectConnects
  /\ LET c == Connect(insps[1], outcome)
     IN  /\ insps' = [insps EXCEPT ![1] = c.o]
         /\ handles' = c.handles
         /\ dlast' = [op |-> "Connect", arg |-> outcome, val |-> "", err |-> c.err,
                      queries |-> <<>>, state |-> DBState(insps[1])]
  /\ UNCHANGED <<engine, fs, appVars, typeVars>>

DirectClose(closeErr) ==
  /\ LET c == Close(insps[1], closeErr)
     IN  /\ handles' = c.handles
         /\ dlast' = [op |-> "Close", arg |-> "", val |-> "", err |-> c.err,
                      queries |-> <<>>, state |-> DBState(insps[1])]
  /\ UNCHANGED <<engine, insps, fs, appVars, typeVars>>

\* PostgresIntrospector.SetSchema
DirectSetSchema(schema) ==
  /\ insps[1].kind = "postgres"
  /\ insps' = [insps EXCEPT ![1].currentSchema = schema]
  /\ dlast' = [op |-> "SetSchema", arg |-> schema, val |-> "", err |-> NoErr,
               queries |-> <<>>, state |-> DBState(insps[1])]
  /\ UNCHANGED <<engine, handles, fs, appVars, typeVars>>

DirectGetTables ==
  /\ dlast' = DLast("GetTables", "", GetTables(insps[1]))
  /\ UNCHANGED <<engine, handles, insps, fs, appVars, typeVars>>

DirectGetColumns(t) ==
  /\ dlast' = DLast("GetColumns", t, GetColumns(insps[1], t))
  /\ UNCHANGED <<engine, handles, insps, fs, appVars, typeVars>>

DirectGetTableMetadata(t) ==
  /\ dlast' = DLast("GetTableMetadata", t, GetTableMetadata(insps[1], t))
  /\ UNCHANGED <<engine, handles, insps, fs, appVars, typeVars>>

DirectGenerate(t) ==
  /\ dlast' = DLast("Generate", t, Generate(insps[1], t))
  /\ UNCHANGED <<engine, handles, insps, fs, appVars, typeVars>>

DirectGenerateString(t) ==
  /\ dlast' = DLast("GenerateString", t, GenerateString(insps[1], t))
  /\ UNCHANGED <<engine, handles, insps, fs, appVars, typeVars>>

DirectGenerateToFile(t) ==
  /\ LET r == GenerateToFile(insps[1], t, OutDir, fs)
     IN  /\ dlast' = DLast("GenerateToFile", t, r)
         /\ fs' = r.fs
  /\ UNCHANGED <<engine, handles, insps, appVars, typeVars>>

DirectGenerateAll ==
  /\ LET r == GenerateAll(insps[1], OutDir, fs)
     IN  /\ dlast' = DLast("GenerateAll", "", r)
         /\ fs' = r.fs
  /\ UNCHANGED <<engine, handles, insps, appVars, typeVars>>

NoCall == [op |-> "", arg |-> "", val |-> "", err |-> NoErr, queries |-> <<>>,
           state |-> "nil"]

\* one fresh introspector of either variant, on one of two databases
InitDirect ==
  /\ engine \in {EngineWith(CatalogFrom(<<"ok", "meta", "ok">>, 1)),
                 EngineWith(CatalogFrom(<<"format", "absent", "write">>, 1))}
  /\ handles = <<>>
  /\ \E d \in {"mysql", "postgres"} : insps = <<NewIntrospectorObj(d)>>
  /\ fs = NoFiles
  /\ dlast = NoCall
  /\ AppIdle /\ TypesIdle

NextDirect ==
  \/ \E outcome \in ConnectOutcomes : DirectConnect(outcome)
  \/ \E closeErr \in BOOLEAN : DirectClose(closeErr)
  \/ \E s \in {"public", "sales"} : DirectSetSchema(s)
  \/ DirectGetTables
  \/ \E t \in TableArgs : DirectGetColumns(t)
  \/ \E t \in TableArgs : DirectGetTableMetadata(t)
  \/ \E t \in TableArgs : DirectGenerate(t)
  \/ \E t \in TableArgs : DirectGenerateString(t)
  \/ \E t \in TableArgs : DirectGenerateToFile(t)
  \/ DirectGenerateAll

SpecDirect == InitDirect /\ [][NextDirect]_vars

\* the generator on a connected introspector, over every catalog
InitGen ==
  /\ \E c \in Catalogs : engine = EngineWith(c)
  /\ handles = <<NewHandle(TRUE)>>
  /\ \E d \in {"mysql", "postgres"} :
       insps = <<[NewIntrospectorObj(d) EXCEPT !.db = 1]>>
  /\ fs = NoFiles
  /\ dlast = NoCall
  /\ AppIdle /\ TypesIdle

NextGen ==
  \/ \E t \in TableArgs : DirectGenerate(t)
  \/ \E t \in TableArgs : DirectGenerateString(t)
  \/ \E t \in TableArgs : DirectGenerateToFile(t)
  \/ DirectGenerateAll

SpecGen == InitGen /\ [][NextGen]_vars

(***************************************************************************)
(* The App bridge (app.go): callers take App.mu, run the method, release.  *)
(***************************************************************************)
\* the goroutines on which the frontend's calls arrive
Callers == {"a", "b"}

\* methods that take a.mu.Lock()
WriteOps == {"ConnectDB", "DisconnectDB", "SetSchema"}

\* methods that take a.mu.RLock() and answer ErrNotConnected when the App is
\* not connected
GuardedReadOps ==
  {"FetchSchemas", "FetchTables", "FetchTableSchema", "GetCodePreview",
   "SaveCodeToFile", "SaveAllToDirectory", "SaveSelectedToDirectory"}

\* methods that take a.mu.RLock() and have no error result
PlainReadOps == {"GetCurrentSchema", "IsPostgres"}

\* the calls the callers make
AppCalls ==
  {[op |-> "ConnectDB", arg |-> d] : d \in Drivers}
  \cup {[op |-> "SetSchema", arg |-> sc] : sc \in {"public", "sales"}}
  \cup {[op |-> o, arg |-> ""] :
          o \in {"DisconnectDB", "FetchSchemas", "FetchTables", "GetCurrentSchema",
                 "IsPostgres", "SaveAllToDirectory"}}
  \cup {[op |-> o, arg |-> "items"] : o \in {"FetchTableSchema", "SaveCodeToFile"}}
  \cup {[op |-> "GetCodePreview", arg |-> t] : t \in {"items", "orders"}}
  \cup {[op |-> "SaveSelectedToDirectory", arg |-> <<"users", "items">>]}

\* a caller outside any method
NoAppCall == [op |-> "", arg |-> "", pre |-> FALSE, val |-> "", err |-> NoErr,
              queries |-> <<>>]

\* sync.RWMutex: Lock waits for the writer and for every reader to leave
CanLockIgnoringReaders(m) == m.writer = ""

CanLock(m) == m.writer = "" /\ m.readers = {}

\* sync.RWMutex: RLock waits for the writer to leave
CanRLock(m) == m.writer = ""

\* a.mu.Lock() / a.mu.RLock() at the head of method c.op
AppAcquire(p, c) ==
  /\ pc[p] = "idle"
  /\ IF c.op \in WriteOps THEN CanLock(mu) ELSE CanRLock(mu)
  /\ c.op = "ConnectDB" => Len(handles) < MaxConnects
  /\ mu' = IF c.op \in WriteOps THEN [mu EXCEPT !.writer = p]
           ELSE [mu EXCEPT !.readers = @ \cup {p}]
  /\ pc' = [pc EXCEPT ![p] = "locked"]
  /\ call' = [call EXCEPT ![p] = [NoAppCall EXCEPT !.op = c.op, !.arg = c.arg,
                                                   !.pre = connected]]
  /\ UNCHANGED <<engine, handles, insps, fs, connected, introspector, generator,
                 dbConfig, dlast, typeVars>>

\* the deferred a.mu.Unlock() / a.mu.RUnlock(): the method returns
AppReturn(p) ==
  /\ pc[p] = "done"
  /\ mu' = IF call[p].op \in WriteOps THEN [mu EXCEPT !.writer = ""]
           ELSE [mu EXCEPT !.readers = @ \ {p}]
  /\ pc' = [pc EXCEPT ![p] = "idle"]
  /\ call' = [call EXCEPT ![p] = NoAppCall]
  /\ UNCHANGED <<engine, handles, insps, fs, connected, introspector, generator,
                 dbConfig, dlast, typeVars>>

\* the method of caller p ends with value val, error err, having sent queries
Done(p, val, err, queries) ==
  /\ pc' = [pc EXCEPT ![p] = "done"]
  /\ call' = [call EXCEPT ![p].val = val, ![p].err = err, ![p].queries = queries]

At(p, op, where) == pc[p] = where /\ call[p].op = op

\* the session fields of the App
Session(c, i, g) == [connected |-> c, introspector |-> i, generator |-> g]

\* a ConnectDB that leaves the fields of the old session in place
KeepSession(sess) == sess

\* ConnectDB lines 118-120, DisconnectDB lines 165-167: the session is dropped
DropSession(sess) == Session(FALSE, 0, 0)

\* a ConnectDB that does not close the existing introspector
ConnectDBCloseSkipped(closeErr) == handles

\* ConnectDB lines 116-117: a.introspector.Close(), its error ignored; the
\* handles afterwards
ConnectDBClose(closeErr) == Close(insps[introspector], closeErr).handles

\* ConnectDB lines 115-121: close the existing connection if any
ConnectDBCloseExisting(p, closeErr) ==
  /\ At(p, "ConnectDB", "locked")
  /\ IF introspector # 0
       THEN /\ handles' = ConnectDBClose(closeErr)
            /\ connected' = DropSession(Session(connected, introspector, generator)).connected
            /\ introspector' = DropSession(Session(connected, introspector, generator)).introspector
            /\ generator' = DropSession(Session(connected, introspector, generator)).generator
       ELSE UNCHANGED <<handles, connected, introspector, generator>>
  /\ pc' = [pc EXCEPT ![p] = "closed"]
  /\ UNCHANGED <<engine, insps, fs, dbConfig, mu, call, dlast, typeVars>>

\* ConnectDB lines 123-127: NewIntrospector refuses the driver
ConnectDBUnsupported(p) ==
  /\ At(p, "ConnectDB", "closed")
  /\ KindOf(call[p].arg) = ""
  /\ Done(p, "", Wrap("failed to create introspector",
                      "unsupported database driver: " \o call[p].arg), <<>>)
  /\ UNCHANGED <<engine, handles, insps, fs, connected, introspector, generator,
                 dbConfig, mu, dlast, typeVars>>

\* ConnectDB lines 129-132: introspector.Connect() fails
ConnectDBFails(p, outcome) ==
  /\ At(p, "ConnectDB", "closed")
  /\ KindOf(call[p].arg) # ""
  /\ outcome # "ok"
  /\ handles' = Connect(NewIntrospectorObj(call[p].arg), outcome).handles
  /\ Done(p, "", Wrap("failed to connect to database",
                      Connect(NewIntrospectorObj(call[p].arg), outcome).err), <<>>)
  /\ UNCHANGED <<engine, insps, fs, connected, introspector, generator, dbConfig,
                 mu, dlast, typeVars>>

\* ConnectDB lines 129-153: introspector.Connect() succeeds, the state is stored
ConnectDBSucceeds(p) ==
  /\ At(p, "ConnectDB", "closed")
  /\ KindOf(call[p].arg) # ""
  /\ handles' = Connect(NewIntrospectorObj(call[p].arg), "ok").handles
  /\ insps' = Append(insps, Connect(NewIntrospectorObj(call[p].arg), "ok").o)
  /\ introspector' = Len(insps) + 1
  /\ dbConfig' = call[p].arg
  /\ generator' = Len(insps) + 1
  /\ connected' = TRUE
  /\ Done(p, "", NoErr, <<>>)
  /\ UNCHANGED <<engine, fs, mu, dlast, typeVars>>

\* App.DisconnectDB
DisconnectDB(p, closeErr) ==
  /\ At(p, "DisconnectDB", "locked")
  /\ IF introspector = 0
       THEN /\ Done(p, "", NoErr, <<>>)
            /\ UNCHANGED <<handles, connected, introspector, generator>>
       ELSE /\ handles' = Close(insps[introspector], closeErr).handles
            /\ IF Close(insps[introspector], closeErr).err # NoErr
                 THEN /\ Done(p, "", Wrap("failed to close connection",
                                          Close(insps[introspector], closeErr).err), <<>>)
                      /\ UNCHANGED <<connected, introspector, generator>>
                 ELSE /\ Done(p, "", NoErr, <<>>)
                      /\ connected' = DropSession(Session(connected, introspector, generator)).connected
                      /\ introspector' = DropSession(Session(connected, introspector, generator)).introspector
                      /\ generator' = DropSession(Session(connected, introspector, generator)).generator
  /\ UNCHANGED <<engine, insps, fs, dbConfig, mu, dlast, typeVars>>

\* the guard at the head of the methods that use the introspector
NotConnected == ~connected \/ introspector = 0

\* the guard at the head of the methods that use the generator
NoGenerator == ~connected \/ generator = 0

\* App.SetSchema
SetSchema(p) ==
  /\ At(p, "SetSchema", "locked")
  /\ IF NotConnected
       THEN Done(p, "", ErrNotConnected, <<>>) /\ UNCHANGED insps
       ELSE /\ Done(p, "", NoErr, <<>>)
            /\ insps' = IF insps[introspector].kind = "postgres"
                          THEN [insps EXCEPT ![introspector].currentSchema = call[p].arg]
                          ELSE insps
  /\ UNCHANGED <<engine, handles, fs, connected, introspector, generator, dbConfig,
                 mu, dlast, typeVars>>

\* a read method answers r; nothing but the caller changes
ReadDone(p, r) ==
  /\ Done(p, r.val, r.err, r.queries)
  /\ UNCHANGED <<engine, handles, insps, fs, connected, introspector, generator,
                 dbConfig, mu, dlast, typeVars>>

\* a read method answers r and leaves the files r.fs
WriteDone(p, r) ==
  /\ Done(p, r.val, r.err, r.queries)
  /\ fs' = r.fs
  /\ UNCHANGED <<engine, handles, insps, connected, introspector, generator,
                 dbConfig, mu, dlast, typeVars>>

\* return nil, fmt.Errorf("<msg>: %w", err) / return val, nil
OrWrapped(msg, zero, r) ==
  IF r.err # NoErr THEN Res(zero, Wrap(msg, r.err), r.queries) ELSE r

\* App.FetchSchemas
FetchSchemas(p) ==
  /\ At(p, "FetchSchemas", "locked")
  /\ ReadDone(p, IF NotConnected THEN Res(<<>>, ErrNotConnected, <<>>)
                 ELSE IF insps[introspector].kind = "postgres"
                   THEN GetSchemas(insps[introspector])
                 ELSE Res(<<>>, NoErr, <<>>))

\* App.GetCurrentSchema
GetCurrentSchema(p) ==
  /\ At(p, "GetCurrentSchema", "locked")
  /\ ReadDone(p, IF introspector = 0 THEN Res("", NoErr, <<>>)
                 ELSE IF insps[introspector].kind = "postgres"
                   THEN Res(insps[introspector].currentSchema, NoErr, <<>>)
                 ELSE IF dbConfig # "" THEN Res(DBName, NoErr, <<>>)
                 ELSE Res("", NoErr, <<>>))

\* App.IsPostgres
IsPostgres(p) ==
  /\ At(p, "IsPostgres", "locked")
  /\ ReadDone(p, Res(dbConfig # "" /\ dbConfig = "postgres", NoErr, <<>>))

\* App.FetchTables
FetchTables(p) ==
  /\ At(p, "FetchTables", "locked")
  /\ ReadDone(p, IF NotConnected THEN Res(<<>>, ErrNotConnected, <<>>)
                 ELSE OrWrapped("failed to fetch tables", <<>>,
                                GetTables(insps[introspector])))

\* FetchTableSchema lines 269-292: a ColumnInfo per column, with its Go type
ColumnInfos(r) ==
  Res([i \in 1..Len(r.val) |->
         [Name |-> r.val[i].Name, RawType |-> r.val[i].RawType,
          GoType |-> GetGoType(r.val[i].RawType, r.val[i].IsNullable).goType,
          IsNullable |-> r.val[i].IsNullable]],
      r.err, r.queries)

\* App.FetchTableSchema
FetchTableSchema(p) ==
  /\ At(p, "FetchTableSchema", "locked")
  /\ ReadDone(p, IF NotConnected THEN Res(<<>>, ErrNotConnected, <<>>)
                 ELSE OrWrapped("failed to fetch schema for table " \o call[p].arg, <<>>,
                                ColumnInfos(GetColumns(insps[introspector], call[p].arg))))

\* App.GetCodePreview
GetCodePreview(p) ==
  /\ At(p, "GetCodePreview", "locked")
  /\ ReadDone(p, IF NoGenerator THEN Res("", ErrNotConnected, <<>>)
                 ELSE OrWrapped("failed to generate code for table " \o call[p].arg, "",
                                GenerateString(insps[generator], call[p].arg)))

\* SaveCodeToFile once Generate has answered g: the code is written to
\* filePath unless Generate failed
SaveCodeFrom(t, filePath, files, g) ==
  IF g.err # NoErr
    THEN FRes("", Wrap("failed to generate code for table " \o t, g.err), g.queries, files)
    ELSE FRes("", NoErr, g.queries, WriteFile(files, filePath, g.val))

\* App.SaveCodeToFile, to the file the frontend names for the table
SaveCodeToFile(p) ==
  /\ At(p, "SaveCodeToFile", "locked")
  /\ WriteDone(p, IF NoGenerator THEN FRes("", ErrNotConnected, <<>>, fs)
                  ELSE SaveCodeFrom(call[p].arg, JoinPath(OutDir, ToFileName(call[p].arg)),
                                    fs, Generate(insps[generator], call[p].arg)))

\* SaveAllToDirectory lines 371-376: GenerateAll answered r
SaveAllFrom(r) ==
  IF r.err # NoErr
    THEN FRes(<<>>, Wrap("failed to generate all tables", r.err), r.queries, r.fs)
    ELSE r

\* App.SaveAllToDirectory
SaveAllToDirectory(p) ==
  /\ At(p, "SaveAllToDirectory", "locked")
  /\ WriteDone(p, IF NoGenerator THEN FRes(<<>>, ErrNotConnected, <<>>, fs)
                  ELSE SaveAllFrom(GenerateAll(insps[generator], OutDir, fs)))

\* App.SaveSelectedToDirectory: the loop of GenerateAll over the given names
SaveSelectedToDirectory(p) ==
  /\ At(p, "SaveSelectedToDirectory", "locked")
  /\ WriteDone(p, IF NoGenerator THEN FRes(<<>>, ErrNotConnected, <<>>, fs)
                  ELSE GenerateAllLoop(insps[generator], call[p].arg, 1, OutDir,
                                       <<>>, <<>>, fs))

\* the database the App is run against: three tables of which the second
\* fails metadata retrieval; in schema "public" the first table does not
\* format
AppEngine ==
  [ns \in Namespaces |->
     CASE ns = DBName -> CatalogFrom(<<"ok", "meta", "ok">>, 1)
       [] ns = "public" -> CatalogFrom(<<"format", "absent", "ok">>, 1)
       [] OTHER -> CatalogFrom(<<"absent", "ok", "write">>, 1)]

\* NewApp(): nothing connected, every caller idle
Init ==
  /\ engine = AppEngine
  /\ handles = <<>> /\ insps = <<>> /\ fs = NoFiles
  /\ connected = FALSE /\ introspector = 0 /\ generator = 0 /\ dbConfig = ""
  /\ mu = [writer |-> "", readers |-> {}]
  /\ pc = [p \in Callers |-> "idle"]
  /\ call = [p \in Callers |-> NoAppCall]
  /\ dlast = NoCall
  /\ TypesIdle

Next ==
  \E p \in Callers :
    \/ \E c \in AppCalls : AppAcquire(p, c)
    \/ AppReturn(p)
    \/ \E closeErr \in BOOLEAN : ConnectDBCloseExisting(p, closeErr)
    \/ ConnectDBUnsupported(p)
    \/ \E outcome \in ConnectOutcomes : ConnectDBFails(p, outcome)
    \/ ConnectDBSucceeds(p)
    \/ \E closeErr \in BOOLEAN : DisconnectDB(p, closeErr)
    \/ SetSchema(p)
    \/ FetchSchemas(p)
    \/ GetCurrentSchema(p)
    \/ IsPostgres(p)
    \/ FetchTables(p)
    \/ FetchTableSchema(p)
    \/ GetCodePreview(p)
    \/ SaveCodeToFile(p)
    \/ SaveAllToDirectory(p)
    \/ SaveSelectedToDirectory(p)

Spec == Init /\ [][Next]_vars

(***************************************************************************)
(* The type mapper on raw column types.                                    *)
(***************************************************************************)
\* strconv.Itoa for 0..99
Itoa(n) ==
  IF n < 10 THEN CharAt("0123456789", n + 1)
  ELSE CharAt("0123456789", (n \div 10) + 1) \o CharAt("0123456789", (n % 10) + 1)

\* the integer types that have both a signed and an unsigned row
IntBases == {"int", "integer", "smallint", "mediumint", "bigint", "tinyint"}

\* display widths: the small ones and two of two digits; 0 stands for none
Widths == (0..MaxWidth) \cup {4, 10, 11, 20}

\* the letter cases a raw type is written in
LetterCases == {"lower", "upper", "title"}

InCase(s, lc) ==
  CASE lc = "upper" -> ToUpper(s)
    [] lc = "title" -> UpperChar(CharAt(s, 1)) \o SubSeq(s, 2, Len(s))
    [] OTHER -> s

\* b, b(n), b unsigned, b(n) unsigned
IntRawType(base, width, unsigned) ==
  base \o (IF width = 0 THEN "" ELSE "(" \o Itoa(width) \o ")")
       \o (IF unsigned THEN " unsigned" ELSE "")

\* raw types outside the integer family
OtherRawTypes ==
  {"varchar(255)", "VARCHAR(64)", "text", "decimal(10,2)", "timestamp", "json",
   "uuid", "blob", "enum('a','b')", "geometry", "  int  ", "double precision",
   "float unsigned", "bool", "time", "bytea", "binary(16)", "varbinary(255)",
   "jsonb", "custom_type", "  My_Special_Type ", "", "unsigned", "foo(3) unsigned",
   "tinyint(1) zerofill", " TinyInt(1)", "tinyint (1)"}

TypeArgs ==
  { [dbType |-> InCase(IntRawType(b, w, u), lc), isNullable |-> n,
     base |-> b, width |-> w, unsigned |-> u] :
       b \in IntBases, w \in Widths, u \in BOOLEAN, lc \in LetterCases, n \in BOOLEAN }
  \cup
  { [dbType |-> t, isNullable |-> n, base |-> "", width |-> 0, unsigned |-> FALSE] :
       t \in OtherRawTypes, n \in BOOLEAN }

GenIdle ==
  /\ engine = EngineWith(<<>>) /\ handles = <<>> /\ insps = <<>>
  /\ fs = NoFiles /\ dlast = NoCall

InitTypes ==
  /\ tIn \in TypeArgs
  /\ tOut = NoTypeCall
  /\ GenIdle /\ AppIdle

\* tm.GetGoType(dbType, isNullable)
CallGetGoType ==
  /\ ~tOut.called
  /\ tOut' = [called |-> TRUE,
              goType |-> GetGoType(tIn.dbType, tIn.isNullable).goType,
              importPath |-> GetGoType(tIn.dbType, tIn.isNullable).importPath,
              comment |-> GetGoType(tIn.dbType, tIn.isNullable).comment,
              simple |-> GetGoTypeSimple(tIn.dbType, tIn.isNullable)]
  /\ UNCHANGED <<tIn, engine, handles, insps, fs, dlast, appVars>>

NextTypes == CallGetGoType

SpecTypes == InitTypes /\ [][NextTypes]_vars

\* the rows of the mapping table the integer family resolves to
SignedType(b) ==
  CASE b \in {"int", "integer", "mediumint"} -> "int32"
    [] b = "smallint" -> "int16"
    [] b = "bigint" -> "int64"
    [] OTHER -> "int8"

UnsignedType(b) ==
  CASE b \in {"int", "integer", "mediumint"} -> "uint32"
    [] b = "smallint" -> "uint16"
    [] b = "bigint" -> "uint64"
    [] OTHER -> "uint8"

\* C10 as stated: for every integer base type b with a signed and an unsigned
\* row, "b unsigned" and "b(n) unsigned" map to the unsigned type and "b" and
\* "b(n)" map to the signed type, in any letter case and for any width n,
\* 1 included.
C10_AsStated ==
  (tOut.called /\ tIn.base \in IntBases) =>
     tOut.goType = IF tIn.unsigned THEN UnsignedType(tIn.base) ELSE SignedType(tIn.base)

\* C10 amended: for every integer base type b with a signed and an unsigned
\* row, "b unsigned" and "b(n) unsigned" map to the unsigned type in any
\* letter case and for any width n, 1 included; "b" and "b(n)" map to the
\* signed type, except tinyint(1), which maps to bool.
C10_UnsignedFirst ==
  (tOut.called /\ tIn.base \in IntBases) =>
     tOut.goType =
       IF tIn.unsigned THEN UnsignedType(tIn.base)
       ELSE IF tIn.base = "tinyint" /\ tIn.width = 1 THEN "bool"
       ELSE SignedType(tIn.base)

\* "TINYINT(1) UNSIGNED" has been mapped, to uint8
C10_Witness ==
  /\ tOut.called /\ tIn.dbType = "TINYINT(1) UNSIGNED" /\ tOut.goType = "uint8"

ByteTypes == {"[]byte"}

Unmatched(dbType) ==
  /\ ~( /\ Contains(ToLower(TrimSpace(dbType)), "unsigned")
        /\ HasMapping(extractBaseType(ToLower(TrimSpace(dbType))) \o " unsigned") )
  /\ ~( /\ HasPrefix(ToLower(TrimSpace(dbType)), "tinyint(1)")
        /\ ~Contains(ToLower(TrimSpace(dbType)), "unsigned") )
  /\ ~HasMapping(ToLower(TrimSpace(dbType)))
  /\ ~HasMapping(extractBaseType(ToLower(TrimSpace(dbType))))

C14_TinyintOneIsBool ==
  tOut.called =>
    /\ ( /\ HasPrefix(ToLower(TrimSpace(tIn.dbType)), "tinyint(1)")
         /\ ~Contains(ToLower(tIn.dbType), "unsigned") ) => tOut.goType = "bool"
    /\ (tIn.base = "tinyint" /\ tIn.width = 1 /\ tIn.unsigned) => tOut.goType = "uint8"
    /\ (tIn.base = "tinyint" /\ tIn.width \notin {0, 1} /\ ~tIn.unsigned) =>
         tOut.goType = "int8"

\* TINYINT(1) has been mapped to bool and not to the int8 of its base type
C14_Witness ==
  /\ tOut.called /\ tIn.dbType = "TINYINT(1)" /\ tOut.goType = "bool"
  /\ Mapping(extractBaseType("tinyint(1)")).GoType = "int8"


(***************************************************************************)
(* Properties of the session life cycle.                                   *)
(***************************************************************************)
\* the operations of an introspector or generator that need a session
SessionOps ==
  {"GetTables", "GetColumns", "GetTableMetadata", "Generate", "GenerateString",
   "GenerateToFile", "GenerateAll"}

\* C1: an operation other than Connect on an object without an open session
\* fails with the not-connected error and sends no query (introspector and
\* generator used directly)
C1_NotConnectedWithoutSession ==
  (dlast.op \in SessionOps /\ dlast.state # "open") =>
     (dlast.err = ErrNotConnected /\ dlast.queries = <<>>)

\* C2: when ConnectDB returns an error the App is disconnected: connected is
\* false, introspector and generator are nil
C2_FailedConnectDisconnects ==
  \A p \in Callers :
    (pc[p] = "done" /\ call[p].op = "ConnectDB" /\ call[p].err # NoErr) =>
       (~connected /\ introspector = 0 /\ generator = 0)

\* a ConnectDB that failed although the App was connected when it was called
C2_Witness ==
  \E p \in Callers :
    /\ pc[p] = "done" /\ call[p].op = "ConnectDB" /\ call[p].err # NoErr
    /\ call[p].pre
    /\ ~connected

\* C3: when DisconnectDB returns from a connected App, the App is
\* disconnected
C3_DisconnectDisconnects ==
  \A p \in Callers :
    (pc[p] = "done" /\ call[p].op = "DisconnectDB" /\ call[p].pre) =>
       (~connected /\ introspector = 0 /\ generator = 0)

\* C4: an established session that is open is the one the App holds, so two
\* are never open together and a replaced one is closed
C4_OneOpenSession ==
  \A h \in 1..Len(handles) :
    (handles[h].est /\ handles[h].state = "open") =>
       (introspector # 0 /\ insps[introspector].db = h)

\* a reconnect: the first session is closed, the second is open and held
C4_Witness ==
  \E h1, h2 \in 1..Len(handles) :
    /\ h1 < h2
    /\ handles[h1].est /\ handles[h1].state = "closed"
    /\ handles[h2].est /\ handles[h2].state = "open"
    /\ connected /\ introspector # 0 /\ insps[introspector].db = h2

\* caller p is inside a method, holding App.mu
InMethod(p) == pc[p] # "idle"

\* a caller inside a mutating method is alone inside the App
MutatorsAlone ==
  \A p, q \in Callers :
    (p # q /\ InMethod(p) /\ InMethod(q)) =>
       (call[p].op \notin WriteOps /\ call[q].op \notin WriteOps)

\* while a caller stays inside a read method the session state stands still
ReadsSeeStableState ==
  (\E p \in Callers : InMethod(p) /\ call[p].op \notin WriteOps /\ pc'[p] # "idle")
    => UNCHANGED <<connected, introspector, generator, insps, handles, dbConfig>>

\* C5: ConnectDB, DisconnectDB and SetSchema exclude every other method;
\* read methods may overlap; no read method sees the session change under it
C5_LockDiscipline ==
  /\ []MutatorsAlone
  /\ [][ReadsSeeStableState]_<<connected, introspector, generator, insps, handles, dbConfig>>

\* two read methods inside the App together, on a connected App
C5_Witness ==
  \E p, q \in Callers :
    /\ p # q /\ InMethod(p) /\ InMethod(q)
    /\ call[p].op \notin WriteOps /\ call[q].op \notin WriteOps
    /\ connected

(***************************************************************************)
(* Properties of generation.                                               *)
(***************************************************************************)
\* the tables of the batch, in the order GetTables returns them
BatchTables == TablesIn(Namespace(insps[1]))

\* the position of the first table of the batch that fails, or one past the
\* last table
FirstFailure ==
  IF \E i \in 1..Len(BatchTables) : BatchTables[i].fault # "ok"
    THEN CHOOSE i \in 1..Len(BatchTables) :
           /\ BatchTables[i].fault # "ok"
           /\ \A j \in 1..(i - 1) : BatchTables[j].fault = "ok"
    ELSE Len(BatchTables) + 1

BatchPath(i) == JoinPath(OutDir, ToFileName(BatchTables[i].name))

\* (results of different operations are of different sorts, so a step is
\* told from a stuttering one by dlast.op first)
\* what a GenerateAll step leaves: the paths of the tables before the first
\* failure, an error exactly if a table failed, no query about and no change
\* to the file of a table after the failing one
BatchStopsAtFirstFailure ==
  dlast'.op = "GenerateAll" =>
    /\ dlast'.val = [i \in 1..(FirstFailure - 1) |-> BatchPath(i)]
    /\ (dlast'.err # NoErr) <=> (FirstFailure <= Len(BatchTables))
    /\ \A i \in 1..(FirstFailure - 1) :
         BatchPath(i) \in DOMAIN fs'
    /\ \A i \in (FirstFailure + 1)..Len(BatchTables) :
         /\ \A j \in 1..Len(dlast'.queries) :
              dlast'.queries[j].table # BatchTables[i].name
         /\ (BatchPath(i) \in DOMAIN fs') <=> (BatchPath(i) \in DOMAIN fs)
         /\ BatchPath(i) \in DOMAIN fs => fs'[BatchPath(i)] = fs[BatchPath(i)]

\* C6: GenerateAll takes the tables in GetTables order; at the first failure
\* it returns the paths written so far with the error, and later tables are
\* neither fetched nor written
C6_BatchStopsAtFirstFailure == [][BatchStopsAtFirstFailure]_<<dlast.op, vars>>

\* a batch over three tables that failed at the second
C6_Witness ==
  /\ dlast.op = "GenerateAll" /\ dlast.err # NoErr
  /\ Len(BatchTables) = 3 /\ FirstFailure = 2
  /\ dlast.val = <<BatchPath(1)>>

\* C7: SaveAllToDirectory on a database of three tables whose second fails
\* metadata retrieval returns the one path of the first table and an error
C7_SaveAllReturnsPartialPaths ==
  \A p \in Callers :
    ( /\ pc[p] = "done" /\ call[p].op = "SaveAllToDirectory"
      /\ connected /\ generator # 0
      /\ insps[generator].kind = "mysql" /\ DBState(insps[generator]) = "open" ) =>
       ( /\ call[p].err # NoErr
         /\ call[p].val = <<JoinPath(OutDir, ToFileName("items"))>> )

\* the table of the last call does not format
FormatFails == FaultOf(Namespace(insps[1]), dlast.arg) = "format"

\* C8: when formatting fails Generate returns the whole unformatted text
\* together with an error
C8_RawTextWithError ==
  (dlast.op = "Generate" /\ FormatFails) =>
     /\ dlast.err # NoErr
     /\ dlast.val = RenderTemplate(GetTableMetadata(insps[1], dlast.arg).val)
     /\ dlast.val # FormatSource(dlast.val)

\* Generate on a table whose text does not format
C8_Witness ==
  /\ dlast.op = "Generate" /\ FormatFails
  /\ dlast.err # NoErr /\ Len(dlast.val) > 0

\* C9: a formatting failure is recoverable: GenerateString still yields the
\* text, GenerateToFile still writes the file, and a batch goes on
C9_FormatErrorRecoverable ==
  /\ (dlast.op = "GenerateString" /\ FormatFails) =>
        dlast.val = RenderTemplate(GetTableMetadata(insps[1], dlast.arg).val)
  /\ (dlast.op = "GenerateToFile" /\ FormatFails) =>
        JoinPath(OutDir, ToFileName(dlast.arg)) \in DOMAIN fs
  /\ ( /\ dlast.op = "GenerateAll"
       /\ \A i \in 1..Len(BatchTables) : BatchTables[i].fault \in {"ok", "format"} ) =>
        Len(dlast.val) = Len(BatchTables)

(***************************************************************************)
(* TagBuilder (internal/generator/tagbuilder.go).                          *)
(***************************************************************************)
\* strings.HasSuffix
HasSuffix(s, p) == Len(s) >= Len(p) /\ SubSeq(s, Len(s) - Len(p) + 1, Len(s)) = p

\* strings.Join
RECURSIVE JoinFrom(_, _, _)
JoinFrom(parts, sep, i) ==
  IF i > Len(parts) THEN ""
  ELSE IF i = Len(parts) THEN parts[i]
  ELSE parts[i] \o sep \o JoinFrom(parts, sep, i + 1)

Join(parts, sep) == JoinFrom(parts, sep, 1)

\* a cleanDefaultValue that leaves the wrapping parentheses in place
StripNothing(defaultVal) == defaultVal

\* cleanDefaultValue, after the function-like defaults are ruled out: the
\* wrapping parentheses go, NULL is no default
StripWrapping(defaultVal) ==
  IF HasPrefix(defaultVal, "(") /\ HasSuffix(defaultVal, ")")
    THEN SubSeq(defaultVal, 2, Len(defaultVal) - 1)
    ELSE defaultVal

\* TagBuilder.cleanDefaultValue
cleanDefaultValue(defaultVal) ==
  IF Contains(defaultVal, "nextval") THEN ""
  ELSE IF \/ Contains(ToLower(defaultVal), "current_timestamp")
          \/ Contains(ToLower(defaultVal), "now()")
          \/ Contains(ToLower(defaultVal), "current_date")
    THEN ""
  ELSE IF ToUpper(StripWrapping(defaultVal)) = "NULL" THEN ""
  ELSE StripWrapping(defaultVal)

\* a column's DefaultValue: <<>> is the nil pointer, <<v>> points at v
DefaultPart(dv) ==
  IF dv # <<>> /\ cleanDefaultValue(dv[1]) # ""
    THEN <<"default:" \o cleanDefaultValue(dv[1])>>
    ELSE <<>>

\* a builder that marks every column that is not nullable
NotNullPartForKeysToo(col) == IF ~col.IsNullable THEN <<"not null">> ELSE <<>>

\* BuildGormTag lines 48-51: the not-null constraint
NotNullPart(col) ==
  IF ~col.IsNullable /\ ~col.IsPrimaryKey THEN <<"not null">> ELSE <<>>

\* a builder that puts the type before the column name
GormPartsTypeFirst(col) ==
  (IF col.IsPrimaryKey THEN <<"primaryKey">> ELSE <<>>)
  \o (IF col.IsAutoIncrement THEN <<"autoIncrement">> ELSE <<>>)
  \o <<"type:" \o col.RawType>>
  \o <<"column:" \o col.Name>>
  \o DefaultPart(col.DefaultValue)
  \o NotNullPart(col)

\* BuildGormTag lines 19-51: parts, in the order they are appended
GormParts(col) ==
  (IF col.IsPrimaryKey THEN <<"primaryKey">> ELSE <<>>)
  \o (IF col.IsAutoIncrement THEN <<"autoIncrement">> ELSE <<>>)
  \o <<"column:" \o col.Name>>
  \o <<"type:" \o col.RawType>>
  \o DefaultPart(col.DefaultValue)
  \o NotNullPart(col)

\* TagBuilder.BuildGormTag
BuildGormTag(col) == "gorm:\"" \o Join(GormParts(col), ";") \o "\""

\* TagBuilder.BuildJSONTag
BuildJSONTag(col) == "json:\"" \o col.Name \o "\""

\* TagBuilder.BuildAllTags
BuildAllTags(col) == Join(<<BuildGormTag(col), BuildJSONTag(col)>>, " ")

\* column defaults as the engines report them, each with the default the
\* tag is to carry ("" for none)
DefaultSamples ==
  { [dv |-> <<>>, cleaned |-> ""],
    [dv |-> <<"">>, cleaned |-> ""],
    [dv |-> <<"0">>, cleaned |-> "0"],
    [dv |-> <<"'active'">>, cleaned |-> "'active'"],
    [dv |-> <<"CURRENT_TIMESTAMP">>, cleaned |-> ""],
    [dv |-> <<"now()">>, cleaned |-> ""],
    [dv |-> <<"nextval('items_id_seq'::regclass)">>, cleaned |-> ""],
    [dv |-> <<"NULL">>, cleaned |-> ""],
    [dv |-> <<"(0)">>, cleaned |-> "0"],
    [dv |-> <<"(null)">>, cleaned |-> ""],
    [dv |-> <<"((0))">>, cleaned |-> "(0)"],
    [dv |-> <<"('x')">>, cleaned |-> "'x'"],
    [dv |-> <<"()">>, cleaned |-> ""],
    [dv |-> <<"(1">>, cleaned |-> "(1"],
    [dv |-> <<"Null">>, cleaned |-> ""],
    [dv |-> <<"'NULL'">>, cleaned |-> "'NULL'"],
    [dv |-> <<"Current_Timestamp(6)">>, cleaned |-> ""],
    [dv |-> <<"(NOW())">>, cleaned |-> ""],
    [dv |-> <<"CURRENT_DATE">>, cleaned |-> ""],
    [dv |-> <<"NEXTVAL('s')">>, cleaned |-> "NEXTVAL('s')"],
    [dv |-> <<"(nextval('s'))">>, cleaned |-> ""],
    [dv |-> <<"1.5">>, cleaned |-> "1.5"] }

\* the columns tags are built for
TagArgs ==
  { [col |-> [Name |-> n, RawType |-> rt, IsNullable |-> nl, IsPrimaryKey |-> pk,
              IsAutoIncrement |-> ai, DefaultValue |-> d.dv],
     cleaned |-> d.cleaned] :
       n \in {"id", "user_name"}, rt \in {"int unsigned", "varchar(255)"},
       nl \in BOOLEAN, pk \in BOOLEAN, ai \in BOOLEAN, d \in DefaultSamples }

NoTagCall == [called |-> FALSE, gorm |-> "", all |-> "", parts |-> <<>>]

InitTags ==
  /\ tIn \in TagArgs
  /\ tOut = NoTagCall
  /\ GenIdle /\ AppIdle

\* tb.BuildGormTag(col), tb.BuildAllTags(col)
CallBuildTags ==
  /\ ~tOut.called
  /\ tOut' = [called |-> TRUE, gorm |-> BuildGormTag(tIn.col),
              all |-> BuildAllTags(tIn.col), parts |-> GormParts(tIn.col)]
  /\ UNCHANGED <<tIn, engine, handles, insps, fs, dlast, appVars>>

NextTags == CallBuildTags

SpecTags == InitTags /\ [][NextTags]_vars

\* C15: the attributes of the gorm tag are joined with ";" in the order
\* primaryKey (iff primary key), autoIncrement (iff auto-increment),
\* column:<name>, type:<raw type>, default:<cleaned default> (iff there is a
\* non-empty one), not null (last)
C15_TagOrder ==
  tOut.called =>
    tOut.gorm =
      "gorm:\""
      \o (IF tIn.col.IsPrimaryKey THEN "primaryKey;" ELSE "")
      \o (IF tIn.col.IsAutoIncrement THEN "autoIncrement;" ELSE "")
      \o "column:" \o tIn.col.Name
      \o ";type:" \o tIn.col.RawType
      \o (IF tIn.cleaned # "" THEN ";default:" \o tIn.cleaned ELSE "")
      \o (IF ~tIn.col.IsNullable /\ ~tIn.col.IsPrimaryKey THEN ";not null" ELSE "")
      \o "\""

\* the tag of the column {id, int unsigned, primary key, auto-increment, not
\* nullable, no default}
C15_Witness ==
  /\ tOut.called
  /\ tIn.col.Name = "id" /\ tIn.col.RawType = "int unsigned"
  /\ tIn.col.IsPrimaryKey /\ tIn.col.IsAutoIncrement /\ ~tIn.col.IsNullable
  /\ tIn.col.DefaultValue = <<>>
  /\ tOut.gorm = "gorm:\"primaryKey;autoIncrement;column:id;type:int unsigned\""

\* C16: the gorm tag carries the not null attribute exactly if the column is
\* not nullable and not a primary key, whatever the other attributes are
C16_NotNullMarker ==
  tOut.called =>
    /\ HasSuffix(tOut.gorm, ";not null\"") <=>
         (~tIn.col.IsNullable /\ ~tIn.col.IsPrimaryKey)
    /\ Cardinality(Occurrences(tOut.gorm, "not null")) =
         IF ~tIn.col.IsNullable /\ ~tIn.col.IsPrimaryKey THEN 1 ELSE 0

\* a column that is not nullable, no primary key and has a default: marked
C16_Witness ==
  /\ tOut.called
  /\ ~tIn.col.IsNullable /\ ~tIn.col.IsPrimaryKey /\ tIn.col.IsAutoIncrement
  /\ tIn.cleaned = "0"
  /\ HasSuffix(tOut.gorm, ";default:0;not null\"")

(***************************************************************************)
(* Enum extraction (typemapper.go ParseEnumValues, mysql_introspector.go   *)
(* parseEnumValues).                                                       *)
(***************************************************************************)
\* the first position from i on that holds no white space (\s*, greedy)
RECURSIVE SkipSpaces(_, _)
SkipSpaces(s, i) ==
  IF i <= Len(s) /\ IsSpace(CharAt(s, i)) THEN SkipSpaces(s, i + 1) ELSE i

\* the last position at which sub occurs in s, 0 when it does not
LastIndex(s, sub) ==
  IF Occurrences(s, sub) = {} THEN 0
  ELSE CHOOSE i \in Occurrences(s, sub) : \A j \in Occurrences(s, sub) : i >= j

\* enum\s*\(\s*(.+)\s*\) tried with "enum" at position i, the opening
\* parenthesis expected at p: the positions of group 1, <<>> when there is
\* no match.  The greedy .+ runs to the last ")" of the text; the \s* before
\* it gives white space back when nothing else is left for the group.
EnumGroupFrom(s, p, last) ==
  IF p > Len(s) \/ CharAt(s, p) # "(" THEN <<>>
  ELSE IF SkipSpaces(s, p + 1) <= last - 1 THEN <<SkipSpaces(s, p + 1), last - 1>>
  ELSE IF p + 1 <= last - 1 THEN <<last - 1, last - 1>>
  ELSE <<>>

EnumGroupAt(s, i) == EnumGroupFrom(s, SkipSpaces(s, i + 4), LastIndex(s, ")"))

\* re.FindStringSubmatch(s): group 1 of the leftmost match, as <<text>>;
\* <<>> when the text has no match
EnumSubmatch(s) ==
  IF \E i \in Occurrences(s, "enum") : EnumGroupAt(s, i) # <<>>
    THEN LET i == CHOOSE k \in Occurrences(s, "enum") :
                    /\ EnumGroupAt(s, k) # <<>>
                    /\ \A j \in Occurrences(s, "enum") :
                         EnumGroupAt(s, j) # <<>> => k <= j
         IN  <<SubSeq(s, EnumGroupAt(s, i)[1], EnumGroupAt(s, i)[2])>>
    ELSE <<>>

\* the first position from i on that holds a quote, 0 when there is none
RECURSIVE NextQuote(_, _)
NextQuote(s, i) ==
  IF i > Len(s) THEN 0
  ELSE IF CharAt(s, i) = "'" THEN i
  ELSE NextQuote(s, i + 1)

\* valueRe.FindAllStringSubmatch(s, -1) for '([^']*)': the texts between
\* successive pairs of quotes, from position i on
RECURSIVE QuotedFrom(_, _)
QuotedBetween(s, a, b) ==
  IF a = 0 \/ b = 0 THEN <<>>
  ELSE <<SubSeq(s, a + 1, b - 1)>> \o QuotedFrom(s, b + 1)

QuotedAfter(s, a) == QuotedBetween(s, a, IF a = 0 THEN 0 ELSE NextQuote(s, a + 1))

QuotedFrom(s, i) == QuotedAfter(s, NextQuote(s, i))

\* the values of a matched declaration; nil and the empty slice are both <<>>
EnumValuesOf(matches) ==
  IF matches = <<>> THEN <<>> ELSE QuotedFrom(matches[1], 1)

\* generator.ParseEnumValues
ParseEnumValues(columnType) == EnumValuesOf(EnumSubmatch(ToLower(columnType)))

\* database.parseEnumValues
parseEnumValues(columnType) == EnumValuesOf(EnumSubmatch(ToLower(columnType)))

\* the literal lists of the enum columns
EnumLiterals ==
  { <<"active", "inactive">>, <<"pending", "approved", "rejected">>, <<"yes", "no">>,
    <<"a", "b", "c">>, <<"x">>, <<"Active", "Inactive">>, <<"S", "M", "XL">>,
    <<"in progress", "done">>, <<"1", "2">> }

\* 'l1'<sep>'l2'...
RECURSIVE QuoteAll(_, _, _)
QuoteAll(lits, sep, i) ==
  IF i > Len(lits) THEN ""
  ELSE "'" \o lits[i] \o "'" \o (IF i < Len(lits) THEN sep ELSE "")
       \o QuoteAll(lits, sep, i + 1)

\* the ways a declaration is laid out: keyword, opening, separator, closing
EnumLayouts ==
  { [kw |-> k, open |-> l[1], sep |-> l[2], close |-> l[3]] :
      k \in {"enum", "ENUM", "Enum"},
      l \in {<<"(", ",", ")">>, <<" (", ", ", ")">>, <<"( ", ",", " )">>} }

\* column types that declare no enum
NonEnumTypes ==
  {"varchar(255)", "int", "", "text", "set('a','b')", "decimal(10,2)", "int unsigned",
   "tinyint(1)"}

EnumArgs ==
  { [columnType |-> y.kw \o y.open \o QuoteAll(l, y.sep, 1) \o y.close,
     isEnum |-> TRUE, literals |-> l] : y \in EnumLayouts, l \in EnumLiterals }
  \cup { [columnType |-> t, isEnum |-> FALSE, literals |-> <<>>] : t \in NonEnumTypes }

NoEnumCall == [called |-> FALSE, exported |-> <<>>, internal |-> <<>>]

InitEnum ==
  /\ tIn \in EnumArgs
  /\ tOut = NoEnumCall
  /\ GenIdle /\ AppIdle

\* ParseEnumValues(columnType) and parseEnumValues(columnType)
CallParseEnumValues ==
  /\ ~tOut.called
  /\ tOut' = [called |-> TRUE, exported |-> ParseEnumValues(tIn.columnType),
              internal |-> parseEnumValues(tIn.columnType)]
  /\ UNCHANGED <<tIn, engine, handles, insps, fs, dlast, appVars>>

NextEnum == CallParseEnumValues

SpecEnum == InitEnum /\ [][NextEnum]_vars

\* C17: enum extraction returns the quoted literals of an enum declaration
\* in order, the keyword in any letter case, and nothing for a type that is
\* no enum; the introspector's copy and the generator's copy agree
C17_EnumLiterals ==
  tOut.called =>
    /\ tOut.exported = tIn.literals
    /\ tOut.internal = tOut.exported

(***************************************************************************)
(* Acronym correction (internal/generator/naming.go).                      *)
(***************************************************************************)
\* the acronyms map of handleAcronyms, as pairs <<pattern, replacement>>
acronyms ==
  << <<"Id", "ID">>, <<"Url", "URL">>, <<"Api", "API">>, <<"Http", "HTTP">>,
     <<"Json", "JSON">>, <<"Xml", "XML">>, <<"Sql", "SQL">>, <<"Uuid", "UUID">>,
     <<"Ip", "IP">>, <<"Html", "HTML">>, <<"Css", "CSS">>, <<"Db", "DB">> >>

\* the map from position k on, cyclically
Rotation(k) ==
  [i \in 1..Len(acronyms) |-> acronyms[((i + k - 2) % Len(acronyms)) + 1]]

Reversed(seq) == [i \in 1..Len(seq) |-> seq[Len(seq) + 1 - i]]

\* orders in which range visits the map: every two and every three entries
\* come in each of their relative orders
IterationOrders ==
  {Rotation(k) : k \in 1..Len(acronyms)}
  \cup {Reversed(Rotation(k)) : k \in 1..Len(acronyms)}

\* replaceAcronym: the character after the match at i is the end of the
\* string or an upper-case letter
IsWordBoundary(result, i, n) ==
  \/ i + n > Len(result)
  \/ Contains(UpperLetters, CharAt(result, i + n))

\* the first position from i on with a match of pattern at a word boundary,
\* 0 when there is none
FirstMatch(result, pattern, i) ==
  IF \E k \in i..(Len(result) - Len(pattern) + 1) :
       SubSeq(result, k, k + Len(pattern) - 1) = pattern
       /\ IsWordBoundary(result, k, Len(pattern))
    THEN CHOOSE k \in i..(Len(result) - Len(pattern) + 1) :
           /\ SubSeq(result, k, k + Len(pattern) - 1) = pattern
           /\ IsWordBoundary(result, k, Len(pattern))
           /\ \A j \in i..(k - 1) :
                ~( SubSeq(result, j, j + Len(pattern) - 1) = pattern
                   /\ IsWordBoundary(result, j, Len(pattern)) )
    ELSE 0

\* a replaceAcronym that stops after its first replacement
ReplaceFromOnce(result, pattern, replacement, i) ==
  IF FirstMatch(result, pattern, i) = 0 THEN result
  ELSE SubSeq(result, 1, FirstMatch(result, pattern, i) - 1) \o replacement
       \o SubSeq(result, FirstMatch(result, pattern, i) + Len(pattern), Len(result))

\* the loop of replaceAcronym from position i on
RECURSIVE ReplaceFrom(_, _, _, _)
ReplaceFrom(result, pattern, replacement, i) ==
  IF i > Len(result) - Len(pattern) + 1 THEN result
  ELSE IF SubSeq(result, i, i + Len(pattern) - 1) = pattern
          /\ IsWordBoundary(result, i, Len(pattern))
    THEN ReplaceFrom(SubSeq(result, 1, i - 1) \o replacement
                       \o SubSeq(result, i + Len(pattern), Len(result)),
                     pattern, replacement, i + Len(replacement))
  ELSE ReplaceFrom(result, pattern, replacement, i + 1)

\* replaceAcronym
replaceAcronym(s, pattern, replacement) == ReplaceFrom(s, pattern, replacement, 1)

\* a handleAcronyms that corrects only the acronym its range visits first
HandleFirstOnly(result, order, k) == replaceAcronym(result, order[1][1], order[1][2])

\* the loop of handleAcronyms over the map, visited in the given order
RECURSIVE HandleFrom(_, _, _)
HandleFrom(result, order, k) ==
  IF k > Len(order) THEN result
  ELSE HandleFrom(replaceAcronym(result, order[k][1], order[k][2]), order, k + 1)

\* handleAcronyms, the map being visited in the given order
handleAcronyms(s, order) == HandleFrom(s, order, 1)

\* every string of the letters up to the given length
RECURSIVE StringsUpTo(_, _)
StringsUpTo(letters, n) ==
  IF n = 0 THEN {""}
  ELSE StringsUpTo(letters, n - 1)
       \cup {w \o c : w \in StringsUpTo(letters, n - 1), c \in letters}

\* names as strcase.ToCamel hands them over, and every short string of the
\* letters of "Id" and "Db"
AcronymArgs ==
  StringsUpTo({"I", "d", "D", "b"}, MaxNameLen)
  \cup {"UserId", "ApiUrl", "HttpStatus", "JsonData", "Uuid", "IpAddress",
        "DbConnection", "Paid", "IdIdId", "HtmlCssXml", "SqlDbIpId", "UserID",
        "ApiUrlId", "UuidUrl", "Identity", "HttpApi", "IdApiId", "UrlDb"}

NoAcronymCall == [calls |-> 0, once |-> "", twice |-> ""]

InitAcronyms ==
  /\ tIn \in {[s |-> w] : w \in AcronymArgs}
  /\ tOut = NoAcronymCall
  /\ GenIdle /\ AppIdle

\* handleAcronyms(s)
CallHandleAcronyms(order) ==
  /\ tOut.calls = 0
  /\ tOut' = [calls |-> 1, once |-> handleAcronyms(tIn.s, order), twice |-> ""]
  /\ UNCHANGED <<tIn, engine, handles, insps, fs, dlast, appVars>>

\* handleAcronyms(handleAcronyms(s))
CallHandleAcronymsAgain(order) ==
  /\ tOut.calls = 1
  /\ tOut' = [tOut EXCEPT !.calls = 2, !.twice = handleAcronyms(tOut.once, order)]
  /\ UNCHANGED <<tIn, engine, handles, insps, fs, dlast, appVars>>

NextAcronyms ==
  \/ \E order \in IterationOrders : CallHandleAcronyms(order)
  \/ \E order \in IterationOrders : CallHandleAcronymsAgain(order)

SpecAcronyms == InitAcronyms /\ [][NextAcronyms]_vars

\* C18: acronym correction is idempotent: correcting a corrected name gives
\* the corrected name, in whatever order the two runs visit the acronym map
C18_AcronymsIdempotent ==
  tOut.calls = 2 => tOut.twice = tOut.once

\* ApiUrlId has been corrected twice and is APIURLID
C18_Witness ==
  /\ tOut.calls = 2 /\ tIn.s = "ApiUrlId"
  /\ tOut.once = "APIURLID" /\ tOut.twice = "APIURLID"

(***************************************************************************)
(* singularize (internal/generator/naming.go).                             *)
(***************************************************************************)
\* the irregulars map of singularize
irregulars ==
  [w \in {"people", "children", "men", "women", "teeth", "feet", "mice", "geese"} |->
     CASE w = "people" -> "person"
       [] w = "children" -> "child"
       [] w = "men" -> "man"
       [] w = "women" -> "woman"
       [] w = "teeth" -> "tooth"
       [] w = "feet" -> "foot"
       [] w = "mice" -> "mouse"
       [] OTHER -> "goose"]

\* word[:len(word)-n]
DropLast(word, n) == SubSeq(word, 1, Len(word) - n)

\* a singularize for which no stem calls for the whole -es to go
StemTakesEsNever(base) == FALSE

\* singularize lines 141-152: the base word ends with s, x, z, ch or sh
StemTakesEs(base) ==
  /\ Len(base) > 0
  /\ \/ CharAt(base, Len(base)) \in {"s", "x", "z"}
     \/ Len(base) > 1 /\ SubSeq(base, Len(base) - 1, Len(base)) \in {"ch", "sh"}

\* singularize lines 137-166: the endings of two letters and of one
ShortEndings(word) ==
  IF Len(word) > 2 /\ HasSuffix(word, "es")
    THEN IF StemTakesEs(DropLast(word, 2)) THEN DropLast(word, 2) ELSE DropLast(word, 1)
  ELSE IF Len(word) > 2 /\ HasSuffix(word, "ss") THEN word
  ELSE IF Len(word) > 2 /\ HasSuffix(word, "s") THEN DropLast(word, 1)
  ELSE word

\* singularize
singularize(word) ==
  IF word = "" THEN word
  ELSE IF word \in DOMAIN irregulars THEN irregulars[word]
  ELSE IF Len(word) > 3 /\ HasSuffix(word, "ies") THEN DropLast(word, 3) \o "y"
  ELSE IF Len(word) > 3 /\ HasSuffix(word, "ves") THEN DropLast(word, 3) \o "f"
  ELSE IF Len(word) > 3 /\ HasSuffix(word, "oes") THEN DropLast(word, 2)
  ELSE ShortEndings(word)

\* table names, and every short word of the letters of the endings
SingularArgs ==
  StringsUpTo({"e", "s", "i", "o", "v"}, MaxWordLen)
  \cup {"users", "posts", "categories", "boxes", "classes", "people", "children",
        "addresses", "statuses", "leaves", "heroes", "class", "status", "men",
        "women", "teeth", "feet", "mice", "geese", "churches", "dishes", "quizzes",
        "buzzes", "houses", "tables", "data", "news", "bus", "gas", "series",
        "movies", "wives", "shoes", "oxes", "glass", "user", "peoples", "ches",
        "shes", "xes", "zes"}

NoSingularCall == [called |-> FALSE, singular |-> ""]

InitSingular ==
  /\ tIn \in {[word |-> w] : w \in SingularArgs}
  /\ tOut = NoSingularCall
  /\ GenIdle /\ AppIdle

\* singularize(word)
CallSingularize ==
  /\ ~tOut.called
  /\ tOut' = [called |-> TRUE, singular |-> singularize(tIn.word)]
  /\ UNCHANGED <<tIn, engine, handles, insps, fs, dlast, appVars>>

NextSingular == CallSingularize

SpecSingular == InitSingular /\ [][NextSingular]_vars

\* the stem of a word in -es ends in s, x, z, ch or sh
SibilantStem(w) ==
  \E e \in {"s", "x", "z", "ch", "sh"} : HasSuffix(DropLast(w, 2), e)

\* the priority of C19, the endings applying to words longer than minEs
\* letters (-ies, -ves, -oes) and longer than minS letters (-es, -ss, -s)
SingularByPriority(w, minEs, minS) ==
  IF w \in {"people", "children", "men", "women", "teeth", "feet", "mice", "geese"}
    THEN CASE w = "people" -> "person" [] w = "children" -> "child"
           [] w = "men" -> "man" [] w = "women" -> "woman"
           [] w = "teeth" -> "tooth" [] w = "feet" -> "foot"
           [] w = "mice" -> "mouse" [] OTHER -> "goose"
  ELSE IF Len(w) > minEs /\ HasSuffix(w, "ies") THEN DropLast(w, 3) \o "y"
  ELSE IF Len(w) > minEs /\ HasSuffix(w, "ves") THEN DropLast(w, 3) \o "f"
  ELSE IF Len(w) > minEs /\ HasSuffix(w, "oes") THEN DropLast(w, 3) \o "o"
  ELSE IF Len(w) > minS /\ HasSuffix(w, "es")
    THEN IF SibilantStem(w) THEN DropLast(w, 2) ELSE DropLast(w, 1)
  ELSE IF Len(w) > minS /\ HasSuffix(w, "ss") THEN w
  ELSE IF Len(w) > minS /\ HasSuffix(w, "s") THEN DropLast(w, 1)
  ELSE w

\* C19 as stated: for every lowercase word singularize follows the priority
\* irregular, -ies -> -y, -ves -> -f, -oes -> -o, -es (whole after s, x, z,
\* ch, sh, else the s only), -ss unchanged, -s stripped, else unchanged
C19_AsStated ==
  tOut.called => tOut.singular = SingularByPriority(tIn.word, 0, 0)

\* C19 amended: the priority holds with the three-letter endings applying
\* to words of more than three letters only and the endings -es, -ss, -s to
\* words of more than two letters only; shorter words are returned unchanged
C19_PriorityOnLongWords ==
  tOut.called => tOut.singular = SingularByPriority(tIn.word, 3, 2)

\* statuses has been singularized, to status
C19_Witness ==
  /\ tOut.called /\ tIn.word = "statuses" /\ tOut.singular = "status"

(***************************************************************************)
(* Imports (internal/generator/imports.go, template.go).                   *)
(***************************************************************************)
\* the characters of import paths, in byte order
AsciiOrder == "./0123456789ABCDEFGHIJKLMNOPQRSTUVWXYZ_abcdefghijklmnopqrstuvwxyz"

\* a < b as Go compares strings, from position i on
RECURSIVE LessFrom(_, _, _)
LessFrom(a, b, i) ==
  IF i > Len(a) THEN i <= Len(b)
  ELSE IF i > Len(b) THEN FALSE
  ELSE IF CharAt(a, i) = CharAt(b, i) THEN LessFrom(a, b, i + 1)
  ELSE Index(AsciiOrder, CharAt(a, i)) < Index(AsciiOrder, CharAt(b, i))

StrLess(a, b) == LessFrom(a, b, 1)

\* sort.Strings on the keys of a map
RECURSIVE SortStrings(_)
SortedAfter(S, m) == <<m>> \o SortStrings(S \ {m})

SortStrings(S) ==
  IF S = {} THEN <<>>
  ELSE SortedAfter(S, CHOOSE x \in S : \A y \in S \ {x} : StrLess(x, y))

\* ImportManager.GetAll
GetAll(imports) == SortStrings(imports)

stdLibPrefixes ==
  {"archive/", "bufio", "bytes", "compress/", "container/", "context", "crypto/",
   "database/", "debug/", "embed", "encoding/", "errors", "expvar", "flag", "fmt",
   "go/", "hash/", "html/", "image/", "index/", "io", "log", "math", "mime/", "net/",
   "os", "path", "reflect", "regexp", "runtime", "sort", "strconv", "strings", "sync",
   "syscall", "testing", "text/", "time", "unicode", "unsafe"}

\* an isStdLib that knows no standard library
isStdLibNever(path) == FALSE

\* isStdLib
isStdLib(path) ==
  \E prefix \in stdLibPrefixes :
    path = prefix \/ HasPrefix(path, prefix \o "/") \/ HasPrefix(path, prefix)

\* the entries of paths that are (std = TRUE) or are not in the standard
\* library, in the order of paths
RECURSIVE SelectPaths(_, _, _)
SelectPaths(paths, std, i) ==
  IF i > Len(paths) THEN <<>>
  ELSE (IF isStdLib(paths[i]) = std THEN <<paths[i]>> ELSE <<>>)
       \o SelectPaths(paths, std, i + 1)

\* one line of the block per path
RECURSIVE ImportLines(_, _)
ImportLines(paths, i) ==
  IF i > Len(paths) THEN ""
  ELSE "\t\"" \o paths[i] \o "\"\n" \o ImportLines(paths, i + 1)

\* GenerateImportBlock lines 75-100: the block of the two groups
ImportBlockOf(stdLib, thirdParty) ==
  "import (\n" \o ImportLines(stdLib, 1)
  \o (IF Len(stdLib) > 0 /\ Len(thirdParty) > 0 THEN "\n" ELSE "")
  \o ImportLines(thirdParty, 1) \o ")"

\* ImportManager.GenerateImportBlock
GenerateImportBlock(imports) ==
  IF imports = {} THEN ""
  ELSE ImportBlockOf(SelectPaths(GetAll(imports), TRUE, 1),
                     SelectPaths(GetAll(imports), FALSE, 1))

\* BuildStructField lines 111-118: the type and the import of the field of a
\* column
FieldTypeOf(col) ==
  [Type |-> GetGoType(col.RawType, col.IsNullable).goType,
   ImportPath |-> GetGoType(col.RawType, col.IsNullable).importPath]

\* what DetectRequiredImports adds for one field
FieldImports(field) ==
  (IF field.Type \in {"time.Time", "*time.Time"} THEN {"time"} ELSE {})
  \cup (IF field.Type \in {"datatypes.JSON", "*datatypes.JSON"}
          THEN {"gorm.io/datatypes"} ELSE {})
  \cup (IF field.Type \in {"uuid.UUID", "*uuid.UUID"}
          THEN {"github.com/google/uuid"} ELSE {})
  \cup (IF field.ImportPath # "" THEN {field.ImportPath} ELSE {})

\* DetectRequiredImports: the set the import manager ends with
DetectRequiredImports(fields) ==
  UNION {FieldImports(fields[i]) : i \in 1..Len(fields)}

\* Generate lines 91-99: the fields of the columns
FieldsOf(cols) == [i \in 1..Len(cols) |-> FieldTypeOf(cols[i])]

\* the raw types of the columns the imports are detected for
ImportRawTypes == {"int", "timestamp", "json", "uuid", "varchar(255)", "date"}

RECURSIVE ColumnLists(_)
ColumnLists(n) ==
  IF n = 0 THEN {<<>>}
  ELSE ColumnLists(n - 1)
       \cup {Append(l, [RawType |-> t, IsNullable |-> FALSE]) :
               l \in {x \in ColumnLists(n - 1) : Len(x) = n - 1}, t \in ImportRawTypes}

NoImportCall == [called |-> FALSE, imports |-> {}, block |-> ""]

InitImports ==
  /\ tIn \in {[cols |-> l] : l \in ColumnLists(MaxFields)}
  /\ tOut = NoImportCall
  /\ GenIdle /\ AppIdle

\* DetectRequiredImports(fields).GenerateImportBlock()
CallGenerateImportBlock ==
  /\ ~tOut.called
  /\ tOut' = [called |-> TRUE,
              imports |-> DetectRequiredImports(FieldsOf(tIn.cols)),
              block |-> GenerateImportBlock(DetectRequiredImports(FieldsOf(tIn.cols)))]
  /\ UNCHANGED <<tIn, engine, handles, insps, fs, dlast, appVars>>

NextImports == CallGenerateImportBlock

SpecImports == InitImports /\ [][NextImports]_vars

\* some column of the call is of one of the raw types
HasColumnOf(types) == \E i \in 1..Len(tIn.cols) : tIn.cols[i].RawType \in types

\* C20: the import block lists time exactly if a field is a time.Time,
\* gorm.io/datatypes exactly if one is a datatypes.JSON and
\* github.com/google/uuid exactly if one is a uuid.UUID, each once, the
\* standard library first and the two groups sorted; it is the empty text
\* when no field needs an import
C20_ImportBlock ==
  tOut.called =>
    tOut.block =
      IF ~HasColumnOf({"timestamp", "date", "json", "uuid"}) THEN ""
      ELSE "import (\n"
           \o (IF HasColumnOf({"timestamp", "date"}) THEN "\t\"time\"\n" ELSE "")
           \o (IF HasColumnOf({"timestamp", "date"}) /\ HasColumnOf({"json", "uuid"})
                 THEN "\n" ELSE "")
           \o (IF HasColumnOf({"uuid"}) THEN "\t\"github.com/google/uuid\"\n" ELSE "")
           \o (IF HasColumnOf({"json"}) THEN "\t\"gorm.io/datatypes\"\n" ELSE "")
           \o ")"

\* a table with a json, a timestamp and a date column: time once and first
C20_Witness ==
  /\ tOut.called
  /\ tIn.cols = << [RawType |-> "json", IsNullable |-> FALSE],
                   [RawType |-> "timestamp", IsNullable |-> FALSE],
                   [RawType |-> "date", IsNullable |-> FALSE] >>
  /\ tOut.block = "import (\n\t\"time\"\n\n\t\"gorm.io/datatypes\"\n)"

(***************************************************************************)
(* The struct of a table: names, fields, template (naming.go,              *)
(* tagbuilder.go, template.go, generator.go).                              *)
(***************************************************************************)
IsUpper(c) == c # "" /\ Contains(UpperLetters, c)

IsLower(c) == c # "" /\ Contains(LowerLetters, c)

\* the byte strcase.ToCamel writes for letter c
CamelByte(c, i, capNext, prevIsCap) ==
  IF capNext THEN (IF IsLower(c) THEN UpperChar(c) ELSE c)
  ELSE IF i = 1 THEN (IF IsUpper(c) THEN LowerChar(c) ELSE c)
  ELSE IF prevIsCap /\ IsUpper(c) THEN LowerChar(c)
  ELSE c

\* the loop of strcase.ToCamel over the bytes of s: letters are written, a
\* digit is written and capitalises what follows, a separator is dropped and
\* capitalises what follows, any other byte is dropped
RECURSIVE ToCamelFrom(_, _, _, _)
ToCamelFrom(s, i, capNext, prevIsCap) ==
  IF i > Len(s) THEN ""
  ELSE IF IsUpper(CharAt(s, i)) \/ IsLower(CharAt(s, i))
    THEN CamelByte(CharAt(s, i), i, capNext, prevIsCap)
         \o ToCamelFrom(s, i + 1, FALSE, IsUpper(CharAt(s, i)))
  ELSE IF IsDigit(CharAt(s, i))
    THEN CharAt(s, i) \o ToCamelFrom(s, i + 1, TRUE, FALSE)
  ELSE ToCamelFrom(s, i + 1, CharAt(s, i) \in {"_", " ", "-", "."}, FALSE)

\* strcase.ToCamel on a name other than the configured acronym "ID"
ToCamel(s) == ToCamelFrom(TrimSpace(s), 1, TRUE, FALSE)

\* NamingConverter.ToGoFieldName, the acronym map being visited in the given
\* order
ToGoFieldName(columnName, order) == handleAcronyms(ToCamel(columnName), order)

\* NamingConverter.ToGoStructName
ToGoStructName(tableName) == ToCamel(singularize(tableName))

\* FormatEnumComment
FormatEnumComment(values) ==
  IF Len(values) = 0 THEN ""
  ELSE "// enum(" \o Join([i \in 1..Len(values) |-> "'" \o values[i] \o "'"], ",") \o ")"

\* BuildStructField lines 121-128: the comment of the field
FieldComment(col, typeComment) ==
  IF Len(col.EnumValues) > 0 THEN FormatEnumComment(col.EnumValues)
  ELSE IF typeComment # "" THEN typeComment
  ELSE IF col.Comment # "" THEN "// " \o col.Comment
  ELSE ""

\* Generate lines 92-97: BuildStructField, then the name by ToGoFieldName
StructFieldOf(col, order) ==
  [Name |-> ToGoFieldName(col.Name, order),
   Type |-> FieldTypeOf(col).Type,
   Tags |-> BuildAllTags(col),
   Comment |-> FieldComment(col, GetGoType(col.RawType, col.IsNullable).comment),
   ImportPath |-> FieldTypeOf(col).ImportPath]

StructFieldsOf(cols, order) == [i \in 1..Len(cols) |-> StructFieldOf(cols[i], order)]

\* a Generate that hands the singular of the table name to the template
TemplateDataOfSingular(tableName, fields) ==
  [PackageName |-> "models",
   Imports |-> GenerateImportBlock(DetectRequiredImports(fields)),
   StructName |-> ToGoStructName(tableName),
   TableName |-> singularize(tableName),
   Fields |-> fields]

\* Generate lines 103-112: the data handed to the template
TemplateDataOf(tableName, fields) ==
  [PackageName |-> "models",
   Imports |-> GenerateImportBlock(DetectRequiredImports(fields)),
   StructName |-> ToGoStructName(tableName),
   TableName |-> tableName,
   Fields |-> fields]

\* the back quote that encloses the tags of a field, which a TLA+ string
\* cannot hold: written as a circumflex, a byte no name, type or tag holds
BackQuote == "^"

\* StructTemplate lines 29-31: one line per field
RECURSIVE ExecuteFields(_, _)
ExecuteFields(fields, i) ==
  IF i > Len(fields) THEN ""
  ELSE "\n\t" \o fields[i].Name \o " " \o fields[i].Type \o " " \o BackQuote
       \o fields[i].Tags \o BackQuote
       \o (IF fields[i].Comment # "" THEN " " \o fields[i].Comment ELSE "")
       \o ExecuteFields(fields, i + 1)

\* tmpl.Execute of StructTemplate on data
ExecuteTemplate(data) ==
  "package " \o data.PackageName \o "\n"
  \o (IF data.Imports # "" THEN "\n\n" \o data.Imports \o "\n" ELSE "")
  \o "\n\n// " \o data.StructName \o " represents the " \o data.TableName \o " table\n"
  \o "type " \o data.StructName \o " struct {"
  \o ExecuteFields(data.Fields, 1)
  \o "\n}\n\n// TableName returns the table name for GORM\n"
  \o "func (" \o data.StructName \o ") TableName() string {\n"
  \o "\treturn \"" \o data.TableName \o "\"\n}\n"

\* Generate lines 90-123 on the metadata of a table: the rendered text
RenderStruct(meta, order) ==
  ExecuteTemplate(TemplateDataOf(meta.Name, StructFieldsOf(meta.Columns, order)))

\* a column as the introspectors report it
Column(name, rawType, nullable, pk, ai, dv, enum, comment) ==
  [Name |-> name, RawType |-> rawType, IsNullable |-> nullable, IsPrimaryKey |-> pk,
   IsAutoIncrement |-> ai, DefaultValue |-> dv, EnumValues |-> enum,
   Comment |-> comment]

\* the columns tables are made of, each with the name its field is to have
ColumnPool ==
  { [col |-> Column("id", "int unsigned", FALSE, TRUE, TRUE, <<>>, <<>>, ""),
     field |-> "ID"],
    [col |-> Column("email", "varchar(255)", FALSE, FALSE, FALSE, <<>>, <<>>, ""),
     field |-> "Email"],
    [col |-> Column("created_at", "timestamp", TRUE, FALSE, FALSE,
                    <<"CURRENT_TIMESTAMP">>, <<>>, ""),
     field |-> "CreatedAt"],
    [col |-> Column("api_uuid", "uuid", TRUE, FALSE, FALSE, <<>>, <<>>, "endpoint"),
     field |-> "APIUUID"],
    [col |-> Column("status", "enum('active','inactive')", FALSE, FALSE, FALSE,
                    <<"'active'">>, <<"active", "inactive">>, ""),
     field |-> "Status"],
    [col |-> Column("shape", "geometry", TRUE, FALSE, FALSE, <<>>, <<>>, ""),
     field |-> "Shape"] }

\* the tables, each with the name its struct is to have
TablePool ==
  { [name |-> "users", entity |-> "User"],
    [name |-> "order_items", entity |-> "OrderItem"],
    [name |-> "categories", entity |-> "Category"],
    [name |-> "people", entity |-> "Person"] }

\* every list of up to n different columns of the pool
RECURSIVE PoolLists(_)
PoolLists(n) ==
  IF n = 0 THEN {<<>>}
  ELSE PoolLists(n - 1)
       \cup {Append(l, c) : l \in {x \in PoolLists(n - 1) : Len(x) = n - 1},
                            c \in ColumnPool}

DistinctColumns(l) == \A i, j \in 1..Len(l) : i # j => l[i] # l[j]

\* the table users with the columns id, email, created_at
UsersTable ==
  [table |-> [name |-> "users", entity |-> "User"],
   cols |-> << CHOOSE c \in ColumnPool : c.field = "ID",
               CHOOSE c \in ColumnPool : c.field = "Email",
               CHOOSE c \in ColumnPool : c.field = "CreatedAt" >>]

RenderArgs ==
  {[table |-> t, cols |-> l] :
     t \in TablePool, l \in {x \in PoolLists(MaxColumns) : DistinctColumns(x)}}
  \cup {UsersTable}

\* the metadata GetTableMetadata answers for the table of the call
MetaOf(args) ==
  [Schema |-> DBName, Name |-> args.table.name,
   Columns |-> [i \in 1..Len(args.cols) |-> args.cols[i].col]]

NoRenderCall == [runs |-> 0, first |-> "", second |-> ""]

InitRender ==
  /\ tIn \in RenderArgs
  /\ tOut = NoRenderCall
  /\ GenIdle /\ AppIdle

\* Generate(tableName) up to the execution of the template, the acronym map
\* being visited in the given order
CallRender(order) ==
  /\ tOut.runs = 0
  /\ tOut' = [tOut EXCEPT !.runs = 1, !.first = RenderStruct(MetaOf(tIn), order)]
  /\ UNCHANGED <<tIn, engine, handles, insps, fs, dlast, appVars>>

\* a second run of Generate on the same metadata
CallRenderAgain(order) ==
  /\ tOut.runs = 1
  /\ tOut' = [tOut EXCEPT !.runs = 2, !.second = RenderStruct(MetaOf(tIn), order)]
  /\ UNCHANGED <<tIn, engine, handles, insps, fs, dlast, appVars>>

NextRender ==
  \/ \E order \in IterationOrders : CallRender(order)
  \/ \E order \in IterationOrders : CallRenderAgain(order)

SpecRender == InitRender /\ [][NextRender]_vars

\* the lines of a text, given the positions of its line breaks
RECURSIVE LinesFrom(_, _, _)
LineUpTo(s, breaks, a, b) == <<SubSeq(s, a, b - 1)>> \o LinesFrom(s, breaks, b + 1)

LinesFrom(s, breaks, a) ==
  IF {b \in breaks : b >= a} = {} THEN <<SubSeq(s, a, Len(s))>>
  ELSE LineUpTo(s, breaks, a,
                CHOOSE b \in breaks : b >= a /\ \A c \in breaks : c >= a => b <= c)

LinesOf(s) == LinesFrom(s, Occurrences(s, "\n"), 1)

\* the lines declare one type, named entity, whose body is one line per
\* column, in the order of cols
OneTypeOfColumns(lines, entity, cols) ==
  /\ Cardinality({i \in 1..Len(lines) : HasPrefix(lines[i], "type ")}) = 1
  /\ \E i \in 1..Len(lines) :
       /\ lines[i] = "type " \o entity \o " struct {"
       /\ i + Len(cols) + 1 <= Len(lines)
       /\ \A k \in 1..Len(cols) :
            /\ HasPrefix(lines[i + k], "\t" \o cols[k].field \o " ")
            /\ Contains(lines[i + k], "column:" \o cols[k].col.Name \o ";")
       /\ lines[i + Len(cols) + 1] = "}"

\* the lines declare one function, the accessor of entity that returns the
\* given name
OneAccessor(lines, entity, name) ==
  /\ Cardinality({j \in 1..Len(lines) : HasPrefix(lines[j], "func ")}) = 1
  /\ \E j \in 1..(Len(lines) - 2) :
       /\ lines[j] = "func (" \o entity \o ") TableName() string {"
       /\ lines[j + 1] = "\treturn \"" \o name \o "\""
       /\ lines[j + 2] = "}"

\* C21: the text Generate renders for a table declares exactly one exported
\* type, named by the singular of the table in Pascal case, with exactly one
\* field per column in the order of the columns, and one accessor TableName
\* that returns the table name as it is
C21_OneTypePerTable ==
  tOut.runs >= 1 =>
    /\ OneTypeOfColumns(LinesOf(tOut.first), tIn.table.entity, tIn.cols)
    /\ OneAccessor(LinesOf(tOut.first), tIn.table.entity, tIn.table.name)

\* table users with columns id, email, created_at: the entity User with
\* three fields and the accessor of "users"
C21_Witness ==
  /\ tOut.runs >= 1
  /\ tIn = UsersTable
  /\ Contains(tOut.first, "type User struct {\n\tID uint32 ")
  /\ Contains(tOut.first, "\n\tEmail string ")
  /\ Contains(tOut.first, "\n\tCreatedAt time.Time ")
  /\ Contains(tOut.first, "\treturn \"users\"\n")

\* C22: two runs of Generate on the same table metadata render the same
\* text, whatever the order in which each run visits the acronym map
C22_Deterministic == tOut.runs = 2 => tOut.second = tOut.first

\* two runs on a table with a column whose name holds two acronyms
C22_Witness ==
  /\ tOut.runs = 2
  /\ \E k \in 1..Len(tIn.cols) : tIn.cols[k].col.Name = "api_uuid"
  /\ Contains(tOut.second, "\tAPIUUID uuid.UUID ")
  /\ Contains(tOut.second, "\t\"github.com/google/uuid\"\n")

(***************************************************************************)
(* Schema selection of the App's session.                                  *)
(***************************************************************************)
\* the methods of the App that query tables, columns, keys or metadata
CatalogOps ==
  {"FetchTables", "FetchTableSchema", "GetCodePreview", "SaveCodeToFile",
   "SaveAllToDirectory", "SaveSelectedToDirectory"}

\* the variant and the selected schema of the App's session, "" without one
LiveKind == IF introspector = 0 THEN "" ELSE insps[introspector].kind

LiveSchema == IF introspector = 0 THEN "" ELSE insps[introspector].currentSchema

\* every catalog query of a finished method of a PostgreSQL session names the
\* selected schema; on a MySQL session the list of schemas is empty and no
\* query is sent for it
QueriesTargetSelection ==
  \A p \in Callers :
    /\ pc[p] = "done" /\ call[p].op \in CatalogOps /\ LiveKind = "postgres" =>
         \A i \in 1..Len(call[p].queries) : call[p].queries[i].ns = LiveSchema
    /\ pc[p] = "done" /\ call[p].op = "FetchSchemas" /\ call[p].pre
       /\ LiveKind = "mysql" =>
         call[p].err = NoErr /\ call[p].val = <<>> /\ call[p].queries = <<>>

\* caller p runs the body of SetSchema in this step
SelectsSchema(p) == At(p, "SetSchema", "locked") /\ pc'[p] = "done"

\* a step changes the selected schema only by SetSchema on a PostgreSQL
\* session, which selects its argument; SetSchema on a MySQL session succeeds
\* and changes nothing; a new PostgreSQL session starts at "public"
SelectionStep ==
  /\ \A p \in Callers :
       SelectsSchema(p) /\ ~NotConnected =>
         /\ call'[p].err = NoErr
         /\ LiveKind = "postgres" => LiveSchema' = call[p].arg
         /\ LiveKind = "mysql" => insps' = insps
  /\ introspector' # introspector /\ introspector' # 0 /\ LiveKind' = "postgres" =>
       LiveSchema' = "public"
  /\ introspector' = introspector /\ (\A p \in Callers : ~SelectsSchema(p)) =>
       LiveSchema' = LiveSchema

\* C23: on a PostgreSQL session every table, column, primary-key and
\* metadata query names the schema last selected by SetSchema, a session
\* newly made by ConnectDB starts at "public" whatever the previous session
\* had selected, and on a MySQL session SetSchema succeeds without effect and
\* FetchSchemas answers the empty list
C23_SchemaSelection ==
  /\ []QueriesTargetSelection
  /\ [][SelectionStep]_<<introspector, insps, pc>>

\* the second session queries "public" although the first had selected
\* "sales"
C23_Witness ==
  /\ Len(insps) = 2 /\ introspector = 2
  /\ insps[1].kind = "postgres" /\ insps[1].currentSchema = "sales"
  /\ LiveKind = "postgres" /\ LiveSchema = "public"
  /\ \E p \in Callers :
       /\ At(p, "FetchTables", "done")
       /\ call[p].queries = <<Q("tables", "public", "")>>

(***************************************************************************)
(* Closing twice.                                                          *)
(***************************************************************************)
\* caller p runs the body of DisconnectDB in this step
Disconnects(p) == At(p, "DisconnectDB", "locked") /\ pc'[p] = "done"

\* the App holds no session, or one whose handle has been closed already
SessionClosed == introspector = 0 \/ DBState(insps[introspector]) = "closed"

\* a DisconnectDB on a closed session returns nil and changes nothing
DisconnectAgainIsNoOp ==
  \A p \in Callers :
    Disconnects(p) /\ SessionClosed =>
      /\ call'[p].err = NoErr
      /\ UNCHANGED <<connected, introspector, generator, handles>>

\* C24: DisconnectDB on a session that is closed already, or on an App that
\* never connected, returns no error and leaves the state as it is, so that
\* two calls in a row leave what one call leaves
C24_CloseIdempotent ==
  [][DisconnectAgainIsNoOp]_<<pc, connected, introspector, generator, handles>>

(***************************************************************************)
(* IsPostgres.                                                             *)
(***************************************************************************)
\* C25: IsPostgres answers true exactly when the App is connected and its
\* session uses the PostgreSQL introspector
C25_IsPostgresIffPostgres ==
  \A p \in Callers :
    At(p, "IsPostgres", "done") =>
      (call[p].val <=> (connected /\ LiveKind = "postgres"))

(***************************************************************************)
(* Failures and what the caller is told.                                   *)
(***************************************************************************)
\* the operations that fetch the metadata of the table they are given
MetadataOps == {"GetTableMetadata", "Generate", "GenerateString", "GenerateToFile"}

\* the last direct call asked an open session for a table whose catalog row
\* is absent, or whose column query the engine fails
EngineFailed ==
  /\ dlast.op \in MetadataOps
  /\ dlast.state = "open"
  /\ \/ ~HasTable(Namespace(insps[1]), dlast.arg)
     \/ FaultOf(Namespace(insps[1]), dlast.arg) = "meta"

\* C26: an operation during which the engine failed, or did not hold the
\* catalog row of the requested table, returns an error to its caller
C26_NoFailureSwallowed == EngineFailed => dlast.err # NoErr

(***************************************************************************)
(* The default attribute of the gorm tag.                                  *)
(***************************************************************************)
\* the attributes of the tag built that carry a default
DefaultAttributes ==
  {i \in 1..Len(tOut.parts) : HasPrefix(tOut.parts[i], "default:")}

\* C27: the tag carries a default attribute exactly when the column has a
\* default whose cleaned value is not empty, and then one that holds the
\* cleaned value: empty for a nextval expression, for current_timestamp,
\* now() and current_date in any case, and for NULL in any case after one
\* layer of enclosing parentheses is taken off; otherwise the literal less
\* that one layer
C27_DefaultCleaning ==
  tOut.called =>
    IF tIn.col.DefaultValue # <<>> /\ tIn.cleaned # ""
      THEN /\ Cardinality(DefaultAttributes) = 1
           /\ \A i \in DefaultAttributes : tOut.parts[i] = "default:" \o tIn.cleaned
      ELSE DefaultAttributes = {}

\* a default in two layers of parentheses loses one
C27_Witness ==
  /\ tOut.called
  /\ tIn.col.DefaultValue = <<"((0))">>
  /\ Contains(tOut.gorm, ";default:(0)")
  /\ ~Contains(tOut.gorm, "default:((0))")

(***************************************************************************)
(* The session fields of the App between mutating calls.                   *)
(***************************************************************************)
\* C28: while no caller holds the write lock, connected, introspector and
\* generator are set together, the generator wraps the App's introspector,
\* and that introspector holds an open handle
C28_SessionFieldsAgree ==
  mu.writer = "" =>
    /\ connected <=> introspector # 0
    /\ introspector # 0 <=> generator # 0
    /\ generator # 0 =>
         /\ generator = introspector
         /\ DBState(insps[introspector]) = "open"

(***************************************************************************)
(* The handles Connect opens.                                              *)
(***************************************************************************)
\* handle h is the one the introspector object holds
Installed(h) == insps[1].db = h

\* C29: after every direct call, each handle sql.Open returned is the
\* introspector's current handle or is closed
C29_NoHandleLeft ==
  \A h \in 1..Len(handles) : Installed(h) \/ handles[h].state = "closed"

(***************************************************************************)
(* Batch generation over table names that share a file name.               *)
(***************************************************************************)
\* table names of one database, in the order ORDER BY yields: two of them
\* have the same snake form
CollidingNames == <<"UserProfile", "orders", "user_profile">>

\* the tables named by f (index -> fault or "absent"), in name order
CollidingCatalog(f) ==
  SelectSeq([i \in 1..Len(CollidingNames) |-> [name |-> CollidingNames[i], fault |-> f[i]]],
            LAMBDA e : e.fault # "absent")

CollidingCatalogs ==
  {CollidingCatalog(f) : f \in [1..Len(CollidingNames) -> Faults \cup {"absent"}]}

\* the selections of distinct table names a caller saves
Selections ==
  {<<"UserProfile", "user_profile">>, <<"user_profile", "UserProfile">>,
   <<"orders", "user_profile">>, <<"user_profile", "orders", "UserProfile">>}

\* the loop of App.SaveSelectedToDirectory on the generator of a connected
\* session
DirectSaveSelected(tableNames) ==
  /\ LET r == GenerateAllLoop(insps[1], tableNames, 1, OutDir, <<>>, <<>>, fs)
     IN  /\ dlast' = DLast("SaveSelectedToDirectory", tableNames, r)
         /\ fs' = r.fs
  /\ UNCHANGED <<engine, handles, insps, appVars, typeVars>>

\* a generator on a connected introspector, over every catalog of the
\* colliding names
InitBatch ==
  /\ \E c \in CollidingCatalogs : engine = EngineWith(c)
  /\ handles = <<NewHandle(TRUE)>>
  /\ \E d \in {"mysql", "postgres"} :
       insps = <<[NewIntrospectorObj(d) EXCEPT !.db = 1]>>
  /\ fs = NoFiles
  /\ dlast = NoCall
  /\ AppIdle /\ TypesIdle

NextBatch ==
  \/ DirectGenerateAll
  \/ \E tableNames \in Selections : DirectSaveSelected(tableNames)

SpecBatch == InitBatch /\ [][NextBatch]_vars

BatchOps == {"GenerateAll", "SaveSelectedToDirectory"}

\* the table names the batch that answered d went through
BatchNamesOf(d) == IF d.op = "GenerateAll" THEN GetTables(insps[1]).val ELSE d.arg

PathOf(t) == JoinPath(OutDir, ToFileName(t))

PathsDistinct(paths) ==
  \A i, j \in 1..Len(paths) : i # j => paths[i] # paths[j]

\* after the step, the file of each of the first n tables holds the text
\* Generate yields for that table
HoldOwnOutput(tables, n) ==
  \A i \in 1..n :
    /\ PathOf(tables[i]) \in DOMAIN fs'
    /\ fs'[PathOf(tables[i])] = Generate(insps[1], tables[i]).val

\* the step left the file of table t as it was, unless a table the batch
\* generated before it has the same path
LeftAlone(t, tables, n) ==
  \/ \E i \in 1..n : PathOf(tables[i]) = PathOf(t)
  \/ /\ PathOf(t) \in DOMAIN fs' <=> PathOf(t) \in DOMAIN fs
     /\ PathOf(t) \in DOMAIN fs => fs'[PathOf(t)] = fs[PathOf(t)]

BatchFailureWritesNothing ==
  dlast'.op \in BatchOps /\ dlast'.err # NoErr /\ DBState(insps[1]) = "open" =>
    LeftAlone(BatchNamesOf(dlast')[Len(dlast'.val) + 1], BatchNamesOf(dlast'),
              Len(dlast'.val))

BatchWritesOneFilePerTable ==
  dlast'.op \in BatchOps /\ dlast'.err = NoErr =>
    /\ Len(dlast'.val) = Len(BatchNamesOf(dlast'))
    /\ PathsDistinct(dlast'.val)
    /\ HoldOwnOutput(BatchNamesOf(dlast'), Len(dlast'.val))

\* C30: a batch that succeeds for n distinct table names returns n pairwise
\* distinct paths and leaves at each the text of its own table, and a batch
\* that stops at a failing table writes no file for that table
C30_OneFilePerTable ==
  [][BatchWritesOneFilePerTable /\ BatchFailureWritesNothing]_<<dlast.op, vars>>

====
